---- MODULE Spec2Model ----
(***************************************************************************)
(* Training Log Explorer: the analytics computed by the page's widgets     *)
(* (MetricsSummary, Charts, IncomeBands, LocalAreas, LineChart) from the   *)
(* loaded table of TrainingLogData records.                                *)
(*                                                                         *)
(* Numbers.  estimate / target / error are integers.  rel_abs_error is an  *)
(* integer number of thousandths (0.05 is 50, 0.20 is 200).  A quotient    *)
(* a / b is kept exact as the record [num |-> a, den |-> b]; 0 / 0 is the  *)
(* JavaScript NaN.                                                         *)
(* Strings.  A metric is a sequence of one-character strings, so that the  *)
(* regular expressions and the prefix tests of the code act on characters. *)
(***************************************************************************)
EXTENDS Integers, Sequences, FiniteSets, TLC

VARIABLES
    response,   \* what fetch('/training_log.csv') settles with (page.tsx:17-18)
    loading,    \* Home's `loading` state (page.tsx:14)
    data,       \* Home's `data` state: the loaded table (page.tsx:13)
    pc,         \* the child of Home that renders next (page.tsx:83-87)
    summary,    \* what MetricsSummary rendered
    incomeBands,    \* what IncomeBands rendered
    selectedSource, \* IncomeBands' selectedSource state (IncomeBands.tsx:63)
    metricType,     \* IncomeBands' metricType state (IncomeBands.tsx:64)
    charts,         \* what Charts rendered
    localAreas,     \* what LocalAreas rendered
    selectedConstituency,   \* LocalAreas' state hooks (LocalAreas.tsx:44-47)
    analysisType,
    viewMode,
    comparisonConstituency,
    lineChart,      \* what LineChart rendered
    selectedMetric, \* LineChart's state hooks (LineChart.tsx:28-29)
    selectedLocation

vars == <<response, loading, data, pc, summary, charts, incomeBands, selectedSource, metricType,
          localAreas, selectedConstituency, analysisType, viewMode,
          comparisonConstituency, lineChart, selectedMetric, selectedLocation>>

----------------------------------------------------------------------------
(* Bounds of the model *)

MaxEpochs == 250
MaxRowsPerEpoch == 2
MaxQualityRows == 3
MaxBandRows == 2
MaxAreaRows == 2
MaxRankedAreas == 6
MaxCsvRows == 3
MaxTieRows == 3
MaxBinRows == 2
MaxChartRows == 2

(* Program constants *)

EpochCap == 100
ExcellentBelow == 50
PoorFrom == 200

----------------------------------------------------------------------------
(* Generic helpers *)

Max2(a, b) == IF a >= b THEN a ELSE b

Range(s) == {s[i] : i \in DOMAIN s}

\* Array.prototype.filter
Filter(s, Test(_)) == SelectSeq(s, Test)

\* a / b on JavaScript numbers, kept exact
Quot(a, b) == [num |-> a, den |-> b]

IsNaN(q) == q.den = 0 /\ q.num = 0

\* Number.prototype.toFixed(1), in tenths; "NaN" for NaN
ToFixed1(q) ==
    IF q.den = 0
    THEN [nan |-> TRUE, tenths |-> 0]
    ELSE [nan |-> FALSE, tenths |-> (20 * q.num + q.den) \div (2 * q.den)]

----------------------------------------------------------------------------
(* Strings: sequences of one-character strings over the characters below,  *)
(* listed in the order of their UTF-16 code units.                         *)

Chars ==
    <<"\n", " ", ",", ".", "/", "0", "1", "2", "3", "4", "5", "6", "7", "8", "9", "T", "_",
      "a", "b", "c", "d", "e", "f", "g", "h", "i", "j", "k", "l", "m",
      "n", "o", "p", "q", "r", "s", "t", "u", "v", "w", "x", "y", "z">>

Digits == {"0", "1", "2", "3", "4", "5", "6", "7", "8", "9"}

CharCode(c) == CHOOSE i \in DOMAIN Chars : Chars[i] = c

DigitVal(c) == CharCode(c) - CharCode("0")

\* s.slice(from - 1): the characters of s from position `from` (1-based) on
Drop(s, from) == IF from > Len(s) THEN <<>> ELSE SubSeq(s, from, Len(s))

\* s.slice(0, n)
Take(s, n) == SubSeq(s, 1, IF n > Len(s) THEN Len(s) ELSE n)

\* whether `sub` occurs in s at position p (1-based)
MatchesAt(s, sub, p) ==
    /\ p >= 1
    /\ p + Len(sub) - 1 <= Len(s)
    /\ SubSeq(s, p, p + Len(sub) - 1) = sub

\* String.prototype.startsWith
StartsWith(s, prefix) == MatchesAt(s, prefix, 1)

\* String.prototype.includes
Includes(s, sub) == \E p \in 1..(Len(s) + 1) : MatchesAt(s, sub, p)

\* the position of the first occurrence of sub in s at or after `from`, 0 if none
IndexFrom(s, sub, from) ==
    LET hits == {p \in from..(Len(s) + 1) : MatchesAt(s, sub, p)}
    IN  IF hits = {} THEN 0 ELSE CHOOSE p \in hits : \A q \in hits : p <= q

\* String.prototype.split(sep), for a non-empty separator
RECURSIVE Split(_, _)
Split(s, sep) ==
    LET p == IndexFrom(s, sep, 1)
    IN  IF p = 0 THEN <<s>>
        ELSE <<Take(s, p - 1)>> \o Split(Drop(s, p + Len(sep)), sep)

\* s.replace(/_/g, '')
\* a variant that leaves the grouping separators in
StripUnderscoresKept(s) == s

StripUnderscores(s) == SelectSeq(s, LAMBDA c : c # "_")

\* the length of the run of decimal digits of s that starts at position p
RECURSIVE DigitRun(_, _)
DigitRun(s, p) ==
    IF p <= Len(s) /\ s[p] \in Digits THEN 1 + DigitRun(s, p + 1) ELSE 0

\* the value of a sequence of decimal digits
RECURSIVE DecimalValue(_)
DecimalValue(ds) ==
    IF ds = <<>> THEN 0
    ELSE 10 * DecimalValue(SubSeq(ds, 1, Len(ds) - 1)) + DigitVal(ds[Len(ds)])

RECURSIVE Pow10(_)
Pow10(n) == IF n = 0 THEN 1 ELSE 10 * Pow10(n - 1)

\* JavaScript values: a number, NaN, null
Num(v) == [k |-> "num", v |-> v]
NaN == [k |-> "nan", v |-> 0]
Null == [k |-> "null", v |-> 0]

\* parseInt(s) for a string of this alphabet: the leading digits, else NaN
ParseInt(s) ==
    LET n == DigitRun(s, 1)
    IN  IF n = 0 THEN NaN ELSE Num(DecimalValue(Take(s, n)))

\* parseFloat(s) for a string of this alphabet (no sign, no decimal point):
\* the leading digits, with an exponent part e<digits> when one follows
ParseFloat(s) ==
    LET n == DigitRun(s, 1)
        x == IF n < Len(s) /\ s[n + 1] = "e" THEN DigitRun(s, n + 2) ELSE 0
    IN  IF n = 0 THEN NaN
        ELSE Num(DecimalValue(Take(s, n)) * Pow10(DecimalValue(SubSeq(s, n + 2, n + 1 + x))))

\* a < b in the order of Array.prototype.sort() without a comparator:
\* by UTF-16 code units, a proper prefix first
RECURSIVE StrLess(_, _)
StrLess(a, b) ==
    IF b = <<>> THEN FALSE
    ELSE IF a = <<>> THEN TRUE
    ELSE IF a[1] # b[1] THEN CharCode(a[1]) < CharCode(b[1])
    ELSE StrLess(Tail(a), Tail(b))

\* Array.from(set).sort() on strings
RECURSIVE SortStrings(_)
SortStrings(S) ==
    IF S = {} THEN <<>>
    ELSE LET least == CHOOSE x \in S : \A y \in S : x = y \/ StrLess(x, y)
         IN  <<least>> \o SortStrings(S \ {least})

(* Metric strings *)

M_generic == <<"m">>

W_slash == <<"/">>
W_underscore == <<"_">>
W_hmrc_slash == <<"h", "m", "r", "c", "/">>
W_income_band_ == <<"i", "n", "c", "o", "m", "e", "_", "b", "a", "n", "d", "_">>
W_count_ == <<"c", "o", "u", "n", "t", "_">>
W_to == <<"_", "t", "o", "_">>
W_inf == <<"i", "n", "f">>

\* the decimal digits of a natural number
RECURSIVE FormatDigits(_)
FormatDigits(n) ==
    IF n < 10 THEN <<Chars[CharCode("0") + n]>>
    ELSE FormatDigits(n \div 10) \o <<Chars[CharCode("0") + (n % 10)]>>

\* the decimal digits of a natural number in groups of three joined by "_"
RECURSIVE FormatGrouped(_)
FormatGrouped(n) ==
    IF n < 1000 THEN FormatDigits(n)
    ELSE FormatGrouped(n \div 1000) \o W_underscore
         \o FormatDigits((n % 1000) \div 100) \o FormatDigits((n % 100) \div 10)
         \o FormatDigits(n % 10)

\* the metric name of a band: hmrc/<source>_[count_]income_band_<N>_<lower>_to_<upper>
BuildBandMetric(source, kind, bandIndex, lower, upper) ==
    W_hmrc_slash \o source \o W_underscore
    \o (IF kind = "count" THEN W_count_ ELSE <<>>)
    \o W_income_band_ \o FormatDigits(bandIndex) \o W_underscore
    \o lower \o W_to \o upper

----------------------------------------------------------------------------
(* Records *)

Rec(n, m, est, tgt, err, rel, ep) ==
    [name |-> n, metric |-> m, estimate |-> est, target |-> tgt,
     error |-> err, rel_abs_error |-> rel, epoch |-> ep]

----------------------------------------------------------------------------
(* Epoch Selector: the block every widget repeats *)

\* data.reduce((max, item) => Math.max(max, item.epoch), 0) over d[lo..hi]:
\* Math.max is associative, so the fold is evaluated by halves
RECURSIVE ReduceMaxEpoch(_, _, _)
ReduceMaxEpoch(d, lo, hi) ==
    IF lo > hi THEN 0
    ELSE IF lo = hi THEN Max2(0, d[lo].epoch)
    ELSE LET mid == (lo + hi) \div 2
         IN  Max2(ReduceMaxEpoch(d, lo, mid), ReduceMaxEpoch(d, mid + 1, hi))

MaxEpochOf(d) == ReduceMaxEpoch(d, 1, Len(d))

\* the least epoch of d (0 when d is empty): where the ascending sort starts
RECURSIVE LeastEpoch(_, _, _)
LeastEpoch(d, lo, hi) ==
    IF lo > hi THEN 0
    ELSE IF lo = hi THEN d[lo].epoch
    ELSE LET mid == (lo + hi) \div 2
             l == LeastEpoch(d, lo, mid)
             r == LeastEpoch(d, mid + 1, hi)
         IN  IF l <= r THEN l ELSE r

\* Array.from(new Set(data.map(item => item.epoch))).sort((a, b) => a - b):
\* the distinct epochs in ascending order
AllEpochs(d) ==
    LET S  == {d[i].epoch : i \in DOMAIN d}
        lo == LeastEpoch(d, 1, Len(d))
        hi == MaxEpochOf(d)
    IN  SelectSeq([k \in 1..(hi - lo + 1) |-> lo + k - 1], LAMBDA e : e \in S)

\* variant: the cap taken as 50
EpochStepHalfCap(allEpochs) == Max2(1, Len(allEpochs) \div (EpochCap \div 2))

\* Math.max(1, Math.floor(allEpochs.length / 100))
EpochStep(allEpochs) == Max2(1, Len(allEpochs) \div EpochCap)

\* variant: the maximum epoch is not forced in
SelectedEpochsNoMax(allEpochs, maxEpoch) ==
    LET step == EpochStep(allEpochs)
        kept == SelectSeq([i \in 1..Len(allEpochs) |-> i], LAMBDA i : (i - 1) % step = 0)
    IN  [j \in 1..Len(kept) |-> allEpochs[kept[j]]]

\* variant: the index taken 1-based
SelectedEpochsOneBased(allEpochs, maxEpoch) ==
    LET step == EpochStep(allEpochs)
        kept == SelectSeq([i \in 1..Len(allEpochs) |-> i],
                          LAMBDA i : i % step = 0 \/ allEpochs[i] = maxEpoch)
    IN  [j \in 1..Len(kept) |-> allEpochs[kept[j]]]

\* allEpochs.filter((_, index) => index % epochStep === 0 || allEpochs[index] === maxEpoch)
SelectedEpochs(allEpochs, maxEpoch) ==
    LET step == EpochStep(allEpochs)
        kept == SelectSeq([i \in 1..Len(allEpochs) |-> i],
                          LAMBDA i : (i - 1) % step = 0 \/ allEpochs[i] = maxEpoch)
    IN  [j \in 1..Len(kept) |-> allEpochs[kept[j]]]

\* data.filter(item => selectedEpochs.includes(item.epoch))
FilteredData(d, selectedEpochs) ==
    LET S == Range(selectedEpochs)
    IN  Filter(d, LAMBDA item : item.epoch \in S)

\* variant: every selected epoch taken as the latest
LatestDataAll(filteredData, maxEpoch) == filteredData

\* filteredData.filter(item => item.epoch === maxEpoch)
LatestData(filteredData, maxEpoch) ==
    Filter(filteredData, LAMBDA item : item.epoch = maxEpoch)

\* the constants of the block, once selectedEpochs is computed
SelectionOf(d, maxEpoch, allEpochs, selectedEpochs) ==
    [maxEpoch |-> maxEpoch,
     allEpochs |-> allEpochs,
     epochStep |-> EpochStep(allEpochs),
     selectedEpochs |-> selectedEpochs,
     filteredData |-> FilteredData(d, selectedEpochs)]

\* MetricsSummary and Charts: they return before this block on an empty table
EpochSelection(d) ==
    SelectionOf(d, MaxEpochOf(d), AllEpochs(d),
                SelectedEpochs(AllEpochs(d), MaxEpochOf(d)))

\* variant: the epoch of the last record, with no floor at 0
MaxEpochOfLast(d) == IF Len(d) > 0 THEN d[Len(d)].epoch ELSE 0

\* data.length > 0 ? data.reduce((max, item) => Math.max(max, item.epoch), 0) : 0
MaxEpochGuarded(d) == IF Len(d) > 0 THEN ReduceMaxEpoch(d, 1, Len(d)) ELSE 0

\* LineChart, IncomeBands and LocalAreas: the same block behind the length guard
EpochSelectionGuarded(d) ==
    SelectionOf(d, MaxEpochGuarded(d), AllEpochs(d),
                SelectedEpochs(AllEpochs(d), MaxEpochGuarded(d)))

LatestOf(sel) == LatestData(sel.filteredData, sel.maxEpoch)

----------------------------------------------------------------------------
(* Quality Classifier *)

IsExcellent(rel) == rel < ExcellentBelow
\* variant: the lower boundary excluded
IsGoodAbove(rel) == rel > ExcellentBelow /\ rel < PoorFrom

IsGood(rel) == rel >= ExcellentBelow /\ rel < PoorFrom
IsPoor(rel) == rel >= PoorFrom

Count(s, Test(_)) == Len(Filter(s, Test))

----------------------------------------------------------------------------
(* MetricsSummary *)

NotRendered == [status |-> "unrendered"]
\* "No data available", returned before the epoch selection is computed
NoData == [status |-> "nodata"]
\* "No data available", returned after it
NoDataAfter(sel) == [status |-> "nodata", sel |-> sel]

\* variant: a reverse() whose receiver is the props array itself
TableReversed(d) == [i \in DOMAIN d |-> d[Len(d) + 1 - i]]

\* the props array after a widget rendered.  sort() and reverse() work in
\* place, and in the five widgets their receiver is always an array of its
\* own: Array.from(...) for allEpochs, incomeSources, constituencies and
\* locations, filter(...) for chartData and sorted, slice(-5) for worst, the
\* local [] for bands.  No statement assigns to a record or to data[i].
TableAfterRender(d) == d

\* the three counts of a list of records or band points
ExcellentCount(items) == Count(items, LAMBDA item : IsExcellent(item.rel_abs_error))
GoodCount(items) == Count(items, LAMBDA item : IsGood(item.rel_abs_error))
PoorCount(items) == Count(items, LAMBDA item : IsPoor(item.rel_abs_error))

\* (excellentCount * 100 + goodCount * 75) / totalEntries
QualityScore(excellentCount, goodCount, totalEntries) ==
    Quot(excellentCount * 100 + goodCount * 75, totalEntries)

SummaryOf(sel, latestData, excellentCount, goodCount, poorCount) ==
    [status |-> "ok",
     sel |-> sel,
     latestData |-> latestData,
     totalEntries |-> Len(latestData),
     excellentCount |-> excellentCount,
     goodCount |-> goodCount,
     poorCount |-> poorCount,
     score |-> QualityScore(excellentCount, goodCount, Len(latestData)),
     qualityScore |-> ToFixed1(QualityScore(excellentCount, goodCount, Len(latestData)))]

SummaryOfLatest(sel, latestData) ==
    SummaryOf(sel, latestData, ExcellentCount(latestData), GoodCount(latestData),
              PoorCount(latestData))

MetricsSummaryView(d) ==
    IF Len(d) = 0 THEN NoData
    ELSE SummaryOfLatest(EpochSelection(d), LatestOf(EpochSelection(d)))

RenderMetricsSummary ==
    \* Home shows "Loading training log..." instead of its children while loading
    /\ ~loading
    /\ pc = "MetricsSummary"
    /\ summary' = MetricsSummaryView(data)
    /\ pc' = "Charts"
    /\ data' = TableAfterRender(data)
    /\ UNCHANGED <<response, loading, charts, incomeBands, selectedSource, metricType,
                   localAreas, selectedConstituency, analysisType, viewMode,
                   comparisonConstituency, lineChart, selectedMetric, selectedLocation>>

----------------------------------------------------------------------------
(* IncomeBands *)

\* metricPart.match(/^(.+?)_(?:count_)?income_band_/): the shortest non-empty
\* prefix that an "_income_band_" or "_count_income_band_" follows; the set
\* holds match[1], and is empty when there is no match
SourceMatch(metricPart) ==
    LET ks == {k \in 1..Len(metricPart) :
                  \/ MatchesAt(metricPart, W_underscore \o W_income_band_, k + 1)
                  \/ MatchesAt(metricPart, W_underscore \o W_count_ \o W_income_band_, k + 1)}
    IN  IF ks = {} THEN {}
        ELSE {Take(metricPart, CHOOSE k \in ks : \A j \in ks : k <= j)}

\* the body of latestData.forEach(item => ...): what one metric adds to incomeSourcesSet
SourcesOfMetric(metric) ==
    IF Includes(metric, W_income_band_)
    THEN LET parts == Split(metric, W_slash)
         IN  IF Len(parts) >= 2 THEN SourceMatch(parts[2]) ELSE {}
    ELSE {}

\* Array.from(incomeSourcesSet).sort()
IncomeSources(latestData) ==
    SortStrings(UNION {SourcesOfMetric(latestData[i].metric) : i \in DOMAIN latestData})

\* bandString.match(/income_band_(\d+)_(.+)/): the leftmost position where
\* "income_band_", a maximal run of digits, "_" and at least one more character
\* follow; 0 when there is none
BandMatchAt(s) ==
    LET ok(p) == LET n == DigitRun(s, p + Len(W_income_band_))
                     q == p + Len(W_income_band_) + n
                 IN  /\ MatchesAt(s, W_income_band_, p)
                     /\ n >= 1
                     /\ q < Len(s)
                     /\ s[q] = "_"
        ps == {p \in 1..Len(s) : ok(p)}
    IN  IF ps = {} THEN 0 ELSE CHOOSE p \in ps : \A q \in ps : p <= q

\* parseBand, step by step: [r |-> "null"] for null, [r |-> "throws"] when
\* upperStr.replace is called on undefined, else the IncomeBand
BandOfParts(digits, range, parts) ==
    IF Len(parts) < 2 THEN [r |-> "throws"]
    ELSE [r |-> "band",
          bandNumber |-> ParseInt(digits).v,
          range |-> range,
          lowerBound |-> ParseFloat(StripUnderscores(parts[1])),
          upperBound |-> IF parts[2] = W_inf THEN Null
                         ELSE ParseFloat(StripUnderscores(parts[2]))]

BandOfRange(digits, range) == BandOfParts(digits, range, Split(range, W_to))

\* match[1] is the n digits at position q, match[2] what follows the "_" after them
BandOfMatch(bandString, q, n) ==
    BandOfRange(SubSeq(bandString, q, q + n - 1), Drop(bandString, q + n + 1))

BandAt(bandString, p) ==
    IF p = 0 THEN [r |-> "null"]
    ELSE BandOfMatch(bandString, p + Len(W_income_band_),
                     DigitRun(bandString, p + Len(W_income_band_)))

ParseBand(bandString) == BandAt(bandString, BandMatchAt(bandString))

\* a.band.lowerBound - b.band.lowerBound > 0; a difference with NaN is NaN,
\* which sort() takes as 0
LowerBoundAfter(a, b) ==
    /\ a.band.lowerBound.k = "num"
    /\ b.band.lowerBound.k = "num"
    /\ a.band.lowerBound.v > b.band.lowerBound.v

\* bands.sort((a, b) => a.band.lowerBound - b.band.lowerBound): stable
RECURSIVE InsertBand(_, _)
InsertBand(sorted, x) ==
    IF sorted = <<>> THEN <<x>>
    ELSE IF LowerBoundAfter(sorted[Len(sorted)], x)
         THEN InsertBand(SubSeq(sorted, 1, Len(sorted) - 1), x) \o <<sorted[Len(sorted)]>>
         ELSE sorted \o <<x>>

\* variant: the series left in the order of the table
SortBandsUnsorted(bands) == bands

RECURSIVE SortBands(_)
SortBands(bands) ==
    IF bands = <<>> THEN <<>>
    ELSE InsertBand(SortBands(SubSeq(bands, 1, Len(bands) - 1)), bands[Len(bands)])

\* `hmrc/${selectedSource}_income_band_` or `hmrc/${selectedSource}_count_income_band_`
BandPrefix(source, type) ==
    IF type = "amount"
    THEN W_hmrc_slash \o source \o W_underscore \o W_income_band_
    ELSE W_hmrc_slash \o source \o W_underscore \o W_count_ \o W_income_band_

\* bands.push({ band, estimate: item.estimate, ... })
BandPoint(band, item) ==
    [band |-> band,
     estimate |-> item.estimate,
     target |-> item.target,
     error |-> item.error,
     rel_abs_error |-> item.rel_abs_error]

\* variant: the points whose target is 0 are dropped too
BandsOfParsedPositive(points) ==
    IF \E i \in DOMAIN points : points[i].band.r = "throws"
    THEN [r |-> "throws"]
    ELSE [r |-> "ok",
          bands |-> SortBands(Filter(points, LAMBDA point :
                                  /\ point.band.r = "band"
                                  /\ point.band.bandNumber # 55
                                  /\ point.target > 0))]

\* bandMetrics.forEach(...) and the sort: [r |-> "throws"] when parseBand
\* throws, else [r |-> "ok", bands |-> the sorted series]
BandsOfParsed(points) ==
    IF \E i \in DOMAIN points : points[i].band.r = "throws"
    THEN [r |-> "throws"]
    ELSE [r |-> "ok",
          bands |-> SortBands(Filter(points, LAMBDA point :
                                  point.band.r = "band" /\ point.band.bandNumber # 55))]

BandsOfMetrics(bandMetrics) ==
    BandsOfParsed([i \in DOMAIN bandMetrics |->
                      BandPoint(ParseBand(bandMetrics[i].metric), bandMetrics[i])])

\* the useMemo of bandsData
BandsData(latestData, source, type) ==
    IF source = <<>> THEN [r |-> "ok", bands |-> <<>>]
    ELSE BandsOfMetrics(Filter(latestData, LAMBDA item :
                                   StartsWith(item.metric, BandPrefix(source, type))))

\* bandsData.reduce((sum, d) => sum + d.rel_abs_error, 0)
RECURSIVE SumRelError(_)
SumRelError(points) ==
    IF points = <<>> THEN 0
    ELSE SumRelError(SubSeq(points, 1, Len(points) - 1)) + points[Len(points)].rel_abs_error

\* variant: a later point of equal error replaces the best so far
ReduceBestLast(points) ==
    points[CHOOSE i \in DOMAIN points :
               /\ \A j \in DOMAIN points : points[i].rel_abs_error <= points[j].rel_abs_error
               /\ \A j \in DOMAIN points :
                      points[j].rel_abs_error = points[i].rel_abs_error => j <= i]

\* points.reduce((best, d) => d.rel_abs_error < best.rel_abs_error ? d : best),
\* without an initial value: called on a non-empty list only
RECURSIVE ReduceBest(_)
ReduceBest(points) ==
    IF Len(points) = 1 THEN points[1]
    ELSE IF points[Len(points)].rel_abs_error
                < ReduceBest(SubSeq(points, 1, Len(points) - 1)).rel_abs_error
         THEN points[Len(points)]
         ELSE ReduceBest(SubSeq(points, 1, Len(points) - 1))

\* points.reduce((worst, d) => d.rel_abs_error > worst.rel_abs_error ? d : worst)
RECURSIVE ReduceWorst(_)
ReduceWorst(points) ==
    IF Len(points) = 1 THEN points[1]
    ELSE IF points[Len(points)].rel_abs_error
                > ReduceWorst(SubSeq(points, 1, Len(points) - 1)).rel_abs_error
         THEN points[Len(points)]
         ELSE ReduceWorst(SubSeq(points, 1, Len(points) - 1))

\* the Best Band and Worst Band lines, rendered for a non-empty list only
BestAndWorst(points) ==
    IF Len(points) > 0 THEN <<ReduceBest(points), ReduceWorst(points)>> ELSE <<>>

\* what IncomeBands returns
IncomeBandsOf(d, sel, latestData, incomeSources, bandsData) ==
    IF bandsData.r = "throws" THEN [status |-> "error"]
    ELSE IF Len(d) = 0 THEN NoDataAfter(sel)
    ELSE IF Len(incomeSources) = 0
    THEN [status |-> "nosources", sel |-> sel, latestData |-> latestData]
    ELSE [status |-> "ok",
          sel |-> sel,
          latestData |-> latestData,
          incomeSources |-> incomeSources,
          bandsData |-> bandsData.bands,
          bestAndWorst |-> BestAndWorst(bandsData.bands),
          avgRelError |-> Quot(SumRelError(bandsData.bands), Len(bandsData.bands)),
          excellentCount |-> ExcellentCount(bandsData.bands),
          goodCount |-> GoodCount(bandsData.bands),
          poorCount |-> PoorCount(bandsData.bands)]

IncomeBandsOfLatest(d, sel, latestData, source, type) ==
    IncomeBandsOf(d, sel, latestData, IncomeSources(latestData),
                  BandsData(latestData, source, type))

\* what IncomeBands renders from the table and its two selections
IncomeBandsView(d, source, type) ==
    IncomeBandsOfLatest(d, EpochSelectionGuarded(d), LatestOf(EpochSelectionGuarded(d)),
                        source, type)

\* list[k - 1] || default
NthOr(list, k, default) == IF Len(list) < k THEN default ELSE list[k]

\* useState(incomeSources[0] || '') on the first render
InitialSource(d) == NthOr(IncomeSources(LatestOf(EpochSelectionGuarded(d))), 1, <<>>)

\* IncomeBands re-rendered with its two selections
ShowIncomeBands(source, type, view) ==
    /\ selectedSource' = source
    /\ metricType' = type
    /\ incomeBands' = view
    \* an error thrown while rendering unmounts the page: nothing renders after it
    /\ pc' = IF view.status = "error" THEN "crashed"
             ELSE IF pc = "IncomeBands" THEN "LocalAreas" ELSE pc
    /\ data' = TableAfterRender(data)
    /\ UNCHANGED <<response, loading, summary, charts,
                   localAreas, selectedConstituency, analysisType, viewMode,
                   comparisonConstituency, lineChart, selectedMetric, selectedLocation>>

\* the first render: the state hooks take their initial values
RenderIncomeBands ==
    /\ pc = "IncomeBands"
    /\ ShowIncomeBands(InitialSource(data), "amount",
                       IncomeBandsView(data, InitialSource(data), "amount"))

\* onChange of the Income Source select: one of the listed options
SetSelectedSource(source) ==
    /\ pc # "crashed"
    /\ incomeBands.status = "ok"
    /\ source \in Range(incomeBands.incomeSources)
    /\ ShowIncomeBands(source, metricType, IncomeBandsView(data, source, metricType))

\* onChange of the Metric Type select
SetMetricType(type) ==
    /\ pc # "crashed"
    /\ incomeBands.status = "ok"
    /\ ShowIncomeBands(selectedSource, type, IncomeBandsView(data, selectedSource, type))

----------------------------------------------------------------------------
(* Charts *)

\* Infinity, in thousandths: above every finite error of the input tables
Infinity == 1000000

\* const errorBins = [0, 0.05, 0.1, 0.20, 0.3, 0.5, 1.0, Infinity]
ErrorBins == <<0, 50, 100, 200, 300, 500, 1000, Infinity>>

\* bin < 0.05 ? 'bg-green-500' : bin < 0.20 ? 'bg-yellow-500' : 'bg-red-500'
BinColor(bin) ==
    IF bin < ExcellentBelow THEN "bg-green-500"
    ELSE IF bin < PoorFrom THEN "bg-yellow-500"
    ELSE "bg-red-500"

\* variant: the upper limit of a bin taken as part of the bin
InBinUpTo(rel, i) ==
    /\ rel >= ErrorBins[i]
    /\ rel <= ErrorBins[i + 1]

\* item.rel_abs_error >= bin && item.rel_abs_error < nextBin, for the i-th bin
InBin(rel, i) ==
    /\ rel >= ErrorBins[i]
    /\ rel < ErrorBins[i + 1]

\* one entry of the distribution
BinEntry(i, count, total) ==
    [bin |-> ErrorBins[i],
     count |-> count,
     percentage |-> ToFixed1(Quot(count * 100, total)),
     color |-> BinColor(ErrorBins[i])]

\* errorBins.slice(0, -1).map((bin, i) => ...)
GetErrorDistribution(latestData) ==
    [i \in 1..(Len(ErrorBins) - 1) |->
        BinEntry(i, Count(latestData, LAMBDA item : InBin(item.rel_abs_error, i)),
                 Len(latestData))]

ChartsOfLatest(sel, latestData) ==
    [status |-> "ok",
     sel |-> sel,
     latestData |-> latestData,
     distribution |-> GetErrorDistribution(latestData)]

ChartsView(d) ==
    IF Len(d) = 0 THEN NoData
    ELSE ChartsOfLatest(EpochSelection(d), LatestOf(EpochSelection(d)))

RenderCharts ==
    /\ pc = "Charts"
    /\ charts' = ChartsView(data)
    /\ pc' = "IncomeBands"
    /\ data' = TableAfterRender(data)
    /\ UNCHANGED <<response, loading, summary, incomeBands, selectedSource, metricType,
                   localAreas, selectedConstituency, analysisType, viewMode,
                   comparisonConstituency, lineChart, selectedMetric, selectedLocation>>

----------------------------------------------------------------------------
(* LocalAreas *)

W_age_slash == <<"a", "g", "e", "/">>
W_employment_amount_slash ==
    <<"h", "m", "r", "c", "/", "e", "m", "p", "l", "o", "y", "m", "e", "n", "t", "_">> \o
    <<"i", "n", "c", "o", "m", "e", "/", "a", "m", "o", "u", "n", "t", "/">>

\* ageBands[i].metric
AgeBands ==
    <<W_age_slash \o <<"0", "_", "1", "0">>,
      W_age_slash \o <<"1", "0", "_", "2", "0">>,
      W_age_slash \o <<"2", "0", "_", "3", "0">>,
      W_age_slash \o <<"3", "0", "_", "4", "0">>,
      W_age_slash \o <<"4", "0", "_", "5", "0">>,
      W_age_slash \o <<"5", "0", "_", "6", "0">>,
      W_age_slash \o <<"6", "0", "_", "7", "0">>,
      W_age_slash \o <<"7", "0", "_", "8", "0">>>>

\* employmentBands[i].metric
EmploymentBands ==
    <<W_employment_amount_slash \o <<"2", "0", "0", "0", "0", "_", "3", "0", "0", "0", "0">>,
      W_employment_amount_slash \o <<"3", "0", "0", "0", "0", "_", "4", "0", "0", "0", "0">>,
      W_employment_amount_slash \o <<"4", "0", "0", "0", "0", "_", "5", "0", "0", "0", "0">>,
      W_employment_amount_slash \o <<"5", "0", "0", "0", "0", "_", "7", "0", "0", "0", "0">>,
      W_employment_amount_slash \o <<"7", "0", "0", "0", "0", "_", "1", "0", "0", "0", "0", "0">>,
      W_employment_amount_slash \o <<"1", "0", "0", "0", "0", "0", "_", "1", "5", "0", "0", "0", "0">>>>

\* Array.from(new Set(latestData.map(item => item.name))).sort()
Constituencies(latestData) == SortStrings({latestData[i].name : i \in DOMAIN latestData})

\* constituencyData.find(d => d.metric === band.metric): the index of the first
\* match, 0 for undefined
FindMetric(constituencyData, metric) ==
    LET hits == {i \in DOMAIN constituencyData : constituencyData[i].metric = metric}
    IN  IF hits = {} THEN 0 ELSE CHOOSE i \in hits : \A j \in hits : i <= j

Abs(x) == IF x < 0 THEN -x ELSE x

\* dataPoints.reduce((sum, point) => sum + Math.abs(point.error), 0)
RECURSIVE SumAbsError(_)
SumAbsError(points) ==
    IF points = <<>> THEN 0
    ELSE SumAbsError(SubSeq(points, 1, Len(points) - 1)) + Abs(points[Len(points)].error)

\* item?.estimate || 0 and the like: i is the index found, 0 for undefined
DataPoint(b, constituencyData, i) ==
    [category |-> b,
     estimate |-> IF i = 0 THEN 0 ELSE constituencyData[i].estimate,
     target |-> IF i = 0 THEN 0 ELSE constituencyData[i].target,
     error |-> IF i = 0 THEN 0 ELSE constituencyData[i].error,
     rel_abs_error |-> IF i = 0 THEN 0 ELSE constituencyData[i].rel_abs_error]

\* variant: the points without a target are kept
DataPointsUnfiltered(constituencyData, bands) ==
    [b \in DOMAIN bands |->
        DataPoint(b, constituencyData, FindMetric(constituencyData, bands[b]))]

\* bands.map(band => ...).filter(point => point.target > 0)
DataPoints(constituencyData, bands) ==
    Filter([b \in DOMAIN bands |->
               DataPoint(b, constituencyData, FindMetric(constituencyData, bands[b]))],
           LAMBDA point : point.target > 0)

\* totalError, avgRelError and the returned LocalAreaData
AreaOf(constituency, dataPoints) ==
    [constituency |-> constituency,
     dataPoints |-> dataPoints,
     totalError |-> SumAbsError(dataPoints),
     avgRelError |-> IF Len(dataPoints) > 0
                     THEN Quot(SumRelError(dataPoints), Len(dataPoints))
                     ELSE Quot(0, 1)]

GetLocalAreaData(latestData, type, constituency) ==
    AreaOf(constituency,
           DataPoints(Filter(latestData, LAMBDA item : item.name = constituency),
                      IF type = "age" THEN AgeBands ELSE EmploymentBands))

\* a.avgRelError - b.avgRelError > 0, on quotients with positive denominators
AvgAfter(a, b) == a.avgRelError.num * b.avgRelError.den > b.avgRelError.num * a.avgRelError.den

\* .sort((a, b) => a.avgRelError - b.avgRelError): stable
RECURSIVE InsertArea(_, _)
InsertArea(sorted, x) ==
    IF sorted = <<>> THEN <<x>>
    ELSE IF AvgAfter(sorted[Len(sorted)], x)
         THEN InsertArea(SubSeq(sorted, 1, Len(sorted) - 1), x) \o <<sorted[Len(sorted)]>>
         ELSE sorted \o <<x>>

\* variant: the areas left in the order of the constituencies
SortAreasUnsorted(areas) == areas

RECURSIVE SortAreas(_)
SortAreas(areas) ==
    IF areas = <<>> THEN <<>>
    ELSE InsertArea(SortAreas(SubSeq(areas, 1, Len(areas) - 1)), areas[Len(areas)])

\* sum + area.avgRelError, on quotients
AddQuot(x, y) == Quot(x.num * y.den + y.num * x.den, x.den * y.den)

\* sorted.reduce((sum, area) => sum + area.avgRelError, 0), as a quotient
RECURSIVE SumAvgRelError(_)
SumAvgRelError(areas) ==
    IF areas = <<>> THEN Quot(0, 1)
    ELSE AddQuot(SumAvgRelError(SubSeq(areas, 1, Len(areas) - 1)),
                 areas[Len(areas)].avgRelError)

Reverse(s) == [i \in 1..Len(s) |-> s[Len(s) + 1 - i]]

\* sum / sorted.length
AverageOf(sum, n) == Quot(sum.num, sum.den * n)

\* variant: the sum divided by the number of all the areas
OverviewOfSortedOverAll(allAreas, sorted) ==
    [allAreas |-> allAreas,
     sorted |-> sorted,
     best |-> Take(sorted, 5),
     worst |-> Reverse(Drop(sorted, Max2(1, Len(sorted) - 4))),
     average |-> AverageOf(SumAvgRelError(sorted), Len(allAreas))]

OverviewOfSorted(allAreas, sorted) ==
    [allAreas |-> allAreas,
     sorted |-> sorted,
     best |-> Take(sorted, 5),
     worst |-> Reverse(Drop(sorted, Max2(1, Len(sorted) - 4))),
     average |-> AverageOf(SumAvgRelError(sorted), Len(sorted))]

\* variant: the areas without points are ranked too
OverviewOfAreasUnfiltered(allAreas) == OverviewOfSorted(allAreas, SortAreas(allAreas))

OverviewOfAreas(allAreas) ==
    OverviewOfSorted(allAreas,
                     SortAreas(Filter(allAreas, LAMBDA area : Len(area.dataPoints) > 0)))

\* the useMemo of overviewData
OverviewData(latestData, type, constituencies) ==
    OverviewOfAreas([i \in DOMAIN constituencies |->
                        GetLocalAreaData(latestData, type, constituencies[i])])

\* what LocalAreas returns
LocalAreasOf(d, sel, latestData, constituencies, constituency, type, mode, comparison) ==
    IF Len(d) = 0 THEN NoDataAfter(sel)
    ELSE IF Len(constituencies) = 0
    THEN [status |-> "noconstituencies", sel |-> sel, latestData |-> latestData]
    ELSE [status |-> "ok",
          sel |-> sel,
          latestData |-> latestData,
          constituencies |-> constituencies,
          primaryData |-> GetLocalAreaData(latestData, type, constituency),
          bestAndWorst |-> BestAndWorst(GetLocalAreaData(latestData, type,
                                                         constituency).dataPoints),
          comparisonData |-> IF mode = "comparison"
                             THEN <<GetLocalAreaData(latestData, type, comparison)>>
                             ELSE <<>>,
          overviewData |-> OverviewData(latestData, type, constituencies)]

LocalAreasOfLatest(d, sel, latestData, constituency, type, mode, comparison) ==
    LocalAreasOf(d, sel, latestData, Constituencies(latestData),
                 constituency, type, mode, comparison)

\* what LocalAreas renders from the table and its four selections
LocalAreasView(d, constituency, type, mode, comparison) ==
    LocalAreasOfLatest(d, EpochSelectionGuarded(d), LatestOf(EpochSelectionGuarded(d)),
                       constituency, type, mode, comparison)

\* LocalAreas re-rendered with its four selections
ShowLocalAreas(constituency, type, mode, comparison) ==
    /\ selectedConstituency' = constituency
    /\ analysisType' = type
    /\ viewMode' = mode
    /\ comparisonConstituency' = comparison
    /\ localAreas' = LocalAreasView(data, constituency, type, mode, comparison)
    /\ pc' = IF pc = "LocalAreas" THEN "LineChart" ELSE pc
    /\ data' = TableAfterRender(data)
    /\ UNCHANGED <<response, loading, summary, charts, incomeBands, selectedSource, metricType,
                   lineChart, selectedMetric, selectedLocation>>

\* the constituencies of the latest epoch, as the state hooks see them
LatestConstituencies(d) == Constituencies(LatestOf(EpochSelectionGuarded(d)))

\* the first render: the state hooks take their initial values
RenderLocalAreas ==
    /\ pc = "LocalAreas"
    \* useState(constituencies[0] || ''), useState('age'), useState('single'),
    \* useState(constituencies[1] || '')
    /\ ShowLocalAreas(NthOr(LatestConstituencies(data), 1, <<>>), "age", "single",
                      NthOr(LatestConstituencies(data), 2, <<>>))

\* onChange of the Analysis Type select
SetAnalysisType(type) ==
    /\ pc # "crashed"
    /\ localAreas.status = "ok"
    /\ ShowLocalAreas(selectedConstituency, type, viewMode, comparisonConstituency)

\* onChange of the View Mode select
SetViewMode(mode) ==
    /\ pc # "crashed"
    /\ localAreas.status = "ok"
    /\ ShowLocalAreas(selectedConstituency, analysisType, mode, comparisonConstituency)

\* onChange of the Primary Constituency select: one of the listed options
SetSelectedConstituency(constituency) ==
    /\ pc # "crashed"
    /\ localAreas.status = "ok"
    /\ constituency \in Range(localAreas.constituencies)
    /\ ShowLocalAreas(constituency, analysisType, viewMode, comparisonConstituency)

\* onChange of the Compare With select, shown in comparison mode: one of the
\* listed options, constituencies.filter(c => c !== selectedConstituency)
SetComparisonConstituency(constituency) ==
    /\ pc # "crashed"
    /\ localAreas.status = "ok"
    /\ viewMode = "comparison"
    /\ constituency \in Range(localAreas.constituencies) \ {selectedConstituency}
    /\ ShowLocalAreas(selectedConstituency, analysisType, viewMode, constituency)

----------------------------------------------------------------------------
(* LineChart *)

\* Array.from(new Set(filteredData.map(item => item.metric))): the distinct
\* metrics in the order of their first occurrence
RECURSIVE ByFirstIndex(_, _)
ByFirstIndex(S, first) ==
    IF S = {} THEN <<>>
    ELSE LET m == CHOOSE x \in S : \A y \in S : first[x] <= first[y]
         IN  <<m>> \o ByFirstIndex(S \ {m}, first)

\* the index of the first record of metric m
FirstIndexOf(filteredData, m) ==
    CHOOSE i \in DOMAIN filteredData :
        /\ filteredData[i].metric = m
        /\ \A j \in 1..(i - 1) : filteredData[j].metric # m

MetricsOfSet(filteredData, S) ==
    ByFirstIndex(S, [m \in S |-> FirstIndexOf(filteredData, m)])

Metrics(filteredData) ==
    MetricsOfSet(filteredData, {filteredData[i].metric : i \in DOMAIN filteredData})

\* .sort((a, b) => a.epoch - b.epoch): stable
RECURSIVE InsertByEpoch(_, _)
InsertByEpoch(sorted, x) ==
    IF sorted = <<>> THEN <<x>>
    ELSE IF sorted[Len(sorted)].epoch > x.epoch
         THEN InsertByEpoch(SubSeq(sorted, 1, Len(sorted) - 1), x) \o <<sorted[Len(sorted)]>>
         ELSE sorted \o <<x>>

RECURSIVE SortByEpoch(_)
SortByEpoch(items) ==
    IF items = <<>> THEN <<>>
    ELSE InsertByEpoch(SortByEpoch(SubSeq(items, 1, Len(items) - 1)), items[Len(items)])

\* what LineChart returns
LineChartOfMetricData(d, sel, metricData, location) ==
    IF Len(d) = 0 THEN NoDataAfter(sel)
    ELSE [status |-> "ok",
          sel |-> sel,
          metrics |-> Metrics(sel.filteredData),
          locations |-> SortStrings({metricData[i].name : i \in DOMAIN metricData}),
          chartData |-> IF location # <<>>
                        THEN SortByEpoch(Filter(metricData, LAMBDA item : item.name = location))
                        ELSE <<>>]

LineChartOf(d, sel, metric, location) ==
    LineChartOfMetricData(d, sel,
                          Filter(sel.filteredData, LAMBDA item : item.metric = metric),
                          location)

\* what LineChart renders from the table and its two selections
LineChartView(d, metric, location) ==
    LineChartOf(d, EpochSelectionGuarded(d), metric, location)

\* LineChart re-rendered with its two selections
ShowLineChart(metric, location) ==
    /\ selectedMetric' = metric
    /\ selectedLocation' = location
    /\ lineChart' = LineChartView(data, metric, location)
    /\ pc' = IF pc = "LineChart" THEN "done" ELSE pc
    /\ data' = TableAfterRender(data)
    /\ UNCHANGED <<response, loading, summary, charts, incomeBands, selectedSource, metricType,
                   localAreas, selectedConstituency, analysisType, viewMode,
                   comparisonConstituency>>

\* useState(metrics[0] || '') on the first render
InitialMetric(d) == NthOr(Metrics(EpochSelectionGuarded(d).filteredData), 1, <<>>)

\* the first render: the state hooks take their initial values
RenderLineChart ==
    /\ pc = "LineChart"
    /\ ShowLineChart(InitialMetric(data), <<>>)

\* variant: the location is kept when the metric changes
SetSelectedMetricKeepLocation(metric) ==
    /\ pc # "crashed"
    /\ lineChart.status = "ok"
    /\ metric \in Range(lineChart.metrics)
    /\ ShowLineChart(metric, selectedLocation)

\* onChange of the Metric select: one of the listed options; the location is reset
SetSelectedMetric(metric) ==
    /\ pc # "crashed"
    /\ lineChart.status = "ok"
    /\ metric \in Range(lineChart.metrics)
    /\ ShowLineChart(metric, <<>>)

\* onChange of the Location select, disabled while no metric is selected:
\* "Select a location..." ('') or a listed location
SetSelectedLocation(location) ==
    /\ pc # "crashed"
    /\ lineChart.status = "ok"
    /\ selectedMetric # <<>>
    /\ location \in Range(lineChart.locations) \cup {<<>>}
    /\ ShowLineChart(selectedMetric, location)

----------------------------------------------------------------------------
(* Home: the loader of /training_log.csv *)

\* const x = value; body: the value is computed once, where it is declared
Const(value, Body(_)) == CHOOSE r \in {Body(x) : x \in {value}} : TRUE

\* String.prototype.split(c) for a separator of one character: the pieces
\* between the occurrences of c, by position
SplitChar(s, c) ==
    Const({0, Len(s) + 1} \cup {i \in DOMAIN s : s[i] = c},
          LAMBDA at :
              [k \in 1..(Cardinality(at) - 1) |->
                  SubSeq(s,
                         1 + CHOOSE i \in at : Cardinality({j \in at : j < i}) = k - 1,
                         (CHOOSE i \in at : Cardinality({j \in at : j < i}) = k) - 1)])

\* String.prototype.trim, for the white space of this alphabet
Trim(s) ==
    LET kept == {i \in DOMAIN s : s[i] \notin {" ", "\n"}}
    IN  IF kept = {} THEN <<>>
        ELSE SubSeq(s, CHOOSE i \in kept : \A j \in kept : i <= j,
                       CHOOSE i \in kept : \A j \in kept : i >= j)

\* parseFloat(s) in thousandths, for a string of this alphabet (no sign, no
\* exponent, at most three decimals): digits, then "." and digits
ParseThousandths(s) ==
    Const(DigitRun(s, 1),
          LAMBDA n :
              Const(IF n < Len(s) /\ s[n + 1] = "." THEN DigitRun(s, n + 2) ELSE 0,
                    LAMBDA f :
                        IF n = 0 /\ f = 0 THEN NaN
                        ELSE Num(1000 * DecimalValue(Take(s, n))
                                 + DecimalValue(Take(SubSeq(s, n + 2, n + 1 + f)
                                                     \o <<"0", "0", "0">>, 3)))))

\* x || 0 on the result of parseFloat or parseInt
OrZero(x) == IF x.k = "num" THEN x.v ELSE 0

\* the callback of lines.map: null for a row of fewer than 10 fields, else the
\* record (of its fields, the ones the widgets read)
ParseRow(line) ==
    Const(SplitChar(line, ","),
          LAMBDA values :
              IF Len(values) < 10 THEN Null
              ELSE [k |-> "row",
                    v |-> Rec(values[2], values[3], OrZero(ParseFloat(values[4])),
                              OrZero(ParseFloat(values[5])), OrZero(ParseFloat(values[6])),
                              OrZero(ParseThousandths(values[8])),
                              OrZero(ParseInt(values[10])))])

\* variant: the rows after the first skipped one are lost
KeptRowsUntilNull(parsed) ==
    Const({i \in DOMAIN parsed : parsed[i].k = "null"},
          LAMBDA nulls :
              [i \in 1..(IF nulls = {} THEN Len(parsed)
                          ELSE (CHOOSE i \in nulls : \A j \in nulls : i <= j) - 1) |->
                  parsed[i].v])

\* .filter(row => row !== null)
KeptRows(parsed) ==
    Const(Filter(parsed, LAMBDA row : row.k # "null"),
          LAMBDA kept : [i \in DOMAIN kept |-> kept[i].v])

\* .map(line => ...) over the lines that are left
RowsOfLines(lines) ==
    Const([i \in DOMAIN lines |-> ParseRow(lines[i])], LAMBDA rows : KeptRows(rows))

\* lines.slice(1).filter(line => line.trim().length > 0)
DataLines(lines) ==
    Const(Filter(Tail(lines), LAMBDA line : Len(Trim(line)) > 0),
          LAMBDA kept : RowsOfLines(kept))

\* csvText.trim().split('\n') and the length test
LinesOf(text) ==
    Const(SplitChar(text, "\n"),
          LAMBDA lines : IF Len(lines) < 2 THEN <<>> ELSE DataLines(lines))

\* the try block: the table that setData receives
ParseCsv(csvText) == Const(Trim(csvText), LAMBDA text : LinesOf(text))

\* .then(csvText => ...): the table is set and loading ends; when the try
\* block throws, the catch block empties the table and loading ends as well
FetchResolved ==
    /\ loading
    /\ response.k \in {"text", "throws"}
    /\ data' = IF response.k = "throws" THEN <<>> ELSE ParseCsv(response.text)
    /\ loading' = FALSE
    /\ UNCHANGED <<response, pc, summary, charts, incomeBands, selectedSource,
                   metricType, localAreas, selectedConstituency, analysisType,
                   viewMode, comparisonConstituency, lineChart, selectedMetric,
                   selectedLocation>>

\* variant: a catch handler that leaves loading as it is
FetchRejectedStillLoading ==
    /\ loading
    /\ response.k = "rejected"
    /\ data' = <<>>
    /\ UNCHANGED <<response, loading, pc, summary, charts, incomeBands, selectedSource,
                   metricType, localAreas, selectedConstituency, analysisType,
                   viewMode, comparisonConstituency, lineChart, selectedMetric,
                   selectedLocation>>

\* .catch(error => ...): the table is emptied and loading ends
FetchRejected ==
    /\ loading
    /\ response.k = "rejected"
    /\ data' = <<>>
    /\ loading' = FALSE
    /\ UNCHANGED <<response, pc, summary, charts, incomeBands, selectedSource,
                   metricType, localAreas, selectedConstituency, analysisType,
                   viewMode, comparisonConstituency, lineChart, selectedMetric,
                   selectedLocation>>

----------------------------------------------------------------------------
(* Input tables for the Epoch Selector: a training run logged at `n`       *)
(* consecutive epochs from `first`, `rows` records per epoch.              *)

EpochTable(first, n, rows) ==
    [i \in 1..(n * rows) |->
        LET ep == first + ((i - 1) \div rows)
        IN  Rec(<<"a">>, M_generic, 10, 10, 0, (ep * 37) % 400, ep)]

FirstEpochs == {-2, 1}

EpochTables ==
    {EpochTable(first, n, rows) :
        first \in FirstEpochs, n \in 0..MaxEpochs, rows \in 1..MaxRowsPerEpoch}

\* Home before any child has rendered
Unrendered ==
    /\ pc = "MetricsSummary"
    /\ summary = NotRendered
    /\ charts = NotRendered
    /\ incomeBands = NotRendered
    /\ selectedSource = <<>>
    /\ metricType = "amount"
    /\ localAreas = NotRendered
    /\ selectedConstituency = <<>>
    /\ analysisType = "age"
    /\ viewMode = "single"
    /\ comparisonConstituency = <<>>
    /\ lineChart = NotRendered
    /\ selectedMetric = <<>>
    /\ selectedLocation = <<>>

\* Home once the table is loaded: the fetch settled earlier and its body is
\* no longer looked at
Loaded ==
    /\ response = [k |-> "settled"]
    /\ loading = FALSE
    /\ Unrendered

\* Home renders its children in order (page.tsx:83-87)
RenderPass ==
    \/ RenderMetricsSummary
    \/ RenderCharts
    \/ RenderIncomeBands
    \/ RenderLocalAreas
    \/ RenderLineChart

InitEpochs ==
    /\ data \in EpochTables
    /\ Loaded

SpecEpochs == InitEpochs /\ [][RenderPass]_vars

----------------------------------------------------------------------------
(* Input tables for the Quality Classifier: up to MaxQualityRows records   *)
(* of the latest epoch, the i-th on band i of source "p", with relative    *)
(* errors around the two thresholds; optionally a record of an older epoch.*)

RelErrors == {20, 49, 50, 100, 199, 200, 300}

QualityTable(rels, older) ==
    (IF older THEN <<Rec(<<"a">>, M_generic, 10, 10, 0, 300, 4)>> ELSE <<>>)
    \o [i \in DOMAIN rels |->
          Rec(<<"a">>,
              BuildBandMetric(<<"p">>, "amount", i,
                              FormatGrouped(i * 10000), FormatGrouped((i + 1) * 10000)),
              10, 10, 0, rels[i], 5)]

QualityTables ==
    {QualityTable(rels, older) :
        rels \in UNION {[1..k -> RelErrors] : k \in 0..MaxQualityRows},
        older \in BOOLEAN}

InitQuality ==
    /\ data \in QualityTables
    /\ Loaded

SpecQuality == InitQuality /\ [][RenderPass]_vars

----------------------------------------------------------------------------
(* Input tables for the error distribution: up to MaxBinRows records of    *)
(* the latest epoch with relative errors on and next to the limits of the  *)
(* bins, a negative error and Infinity (parseFloat returns both);          *)
(* optionally a record of an older epoch.                                  *)

BinErrors ==
    {-10, 0, 49, 50, 99, 100, 199, 200, 299, 300, 499, 500, 999, 1000, 2000, Infinity}

BinTable(rels, older) ==
    (IF older THEN <<Rec(<<"a">>, M_generic, 10, 10, 0, 300, 4)>> ELSE <<>>)
    \o [i \in DOMAIN rels |-> Rec(<<"a">>, M_generic, 10, 10, 0, rels[i], 5)]

BinTables ==
    {BinTable(rels, older) :
        rels \in UNION {[1..k -> BinErrors] : k \in 0..MaxBinRows},
        older \in BOOLEAN}

InitBins ==
    /\ data \in BinTables
    /\ Loaded

SpecBins == InitBins /\ [][RenderPass]_vars

----------------------------------------------------------------------------
(* Input tables for LineChart: up to MaxChartRows records of two           *)
(* locations, on two metrics or on the empty metric, at two epochs; the    *)
(* user then changes the metric and the location.                          *)

ChartNames == {<<"a">>, <<"b">>}

ChartMetrics == {<<"m">>, <<"n">>, <<>>}

ChartRows == [name : ChartNames, metric : ChartMetrics, epoch : {4, 5}]

ChartTable(rows) ==
    [i \in DOMAIN rows |->
        Rec(rows[i].name, rows[i].metric, 10 + i, 10, i, 60 * i, rows[i].epoch)]

ChartTables ==
    {ChartTable(rows) : rows \in UNION {[1..k -> ChartRows] : k \in 0..MaxChartRows}}

InitChart ==
    /\ data \in ChartTables
    /\ Loaded

NextChart ==
    \/ RenderPass
    \/ \E metric \in ChartMetrics : SetSelectedMetric(metric)
    \/ \E location \in ChartNames \cup {<<>>} : SetSelectedLocation(location)

SpecChart == InitChart /\ [][NextChart]_vars

----------------------------------------------------------------------------
(* Input tables for the Metric Identifier Parser and the Band Aggregator:  *)
(* a band record of an older epoch, the total band (55) of the latest      *)
(* epoch and up to MaxBandRows more records of the latest epoch, whose     *)
(* metrics are band metrics built from the tuples below or are not band    *)
(* metrics.                                                                *)

S_pension == <<"p", "e", "n", "s", "i", "o", "n">>
S_x == <<"x">>
S_x_count == <<"x", "_", "c", "o", "u", "n", "t">>

BandSources == {S_pension, S_x, S_x_count}

MetricTypes == {"amount", "count"}

\* (bandIndex, lowerBound, upperBound, written with grouping separators or not)
FiniteBand == [bandIndex |-> 3, lowerBound |-> 10000, upperBound |-> Num(20000), grouped |-> TRUE]

MiddleBand == [bandIndex |-> 7, lowerBound |-> 50000, upperBound |-> Num(70000), grouped |-> FALSE]

OpenBand == [bandIndex |-> 12, lowerBound |-> 150000, upperBound |-> Null, grouped |-> FALSE]

TotalBand == [bandIndex |-> 55, lowerBound |-> 0, upperBound |-> Null, grouped |-> FALSE]

BandTuple(source, kind, shape) == [source |-> source, kind |-> kind, shape |-> shape]

BandTuples ==
    {BandTuple(S_pension, "amount", FiniteBand),
     BandTuple(S_pension, "amount", MiddleBand),
     BandTuple(S_pension, "amount", OpenBand),
     BandTuple(S_pension, "count", FiniteBand),
     BandTuple(S_x, "amount", OpenBand),
     BandTuple(S_x, "count", FiniteBand),
     BandTuple(S_x_count, "amount", FiniteBand),
     BandTuple(S_x_count, "count", OpenBand),
     BandTuple(S_pension, "amount", TotalBand)}

BuildMetric(t) ==
    BuildBandMetric(t.source, t.kind, t.shape.bandIndex,
                    IF t.shape.grouped THEN FormatGrouped(t.shape.lowerBound)
                    ELSE FormatDigits(t.shape.lowerBound),
                    IF t.shape.upperBound = Null THEN W_inf
                    ELSE IF t.shape.grouped THEN FormatGrouped(t.shape.upperBound.v)
                    ELSE FormatDigits(t.shape.upperBound.v))

\* "hmrc/pension_income_band_3_1000": a band metric without the "_to_" separator
M_no_separator ==
    W_hmrc_slash \o S_pension \o W_underscore \o W_income_band_ \o <<"3", "_", "1", "0", "0", "0">>

BandMetricPool ==
    {BuildMetric(t) : t \in {u \in BandTuples : u.shape.bandIndex # 55}}
    \cup {M_no_separator, M_generic, <<>>}

\* the records of constituency "a" and of constituency "b" alternate
BandTable(metrics) ==
    <<Rec(<<"a">>, BuildMetric(BandTuple(S_pension, "amount", FiniteBand)), 7, 9, -2, 222, 4),
      Rec(<<"a">>, BuildMetric(BandTuple(S_pension, "amount", TotalBand)), 8, 9, -1, 111, 5)>>
    \o [i \in DOMAIN metrics |->
          Rec(IF i % 2 = 1 THEN <<"a">> ELSE <<"b">>, metrics[i],
              100 + i, 50 * (i - 1), 150 + i - 50 * i, 140 * i - 120, 5)]

BandTables ==
    {BandTable(metrics) :
        metrics \in UNION {[1..k -> BandMetricPool] : k \in 1..MaxBandRows}}

InitBands ==
    /\ data \in BandTables
    /\ Loaded

NextBands ==
    \/ RenderPass
    \/ \E source \in BandSources : SetSelectedSource(source)
    \/ \E type \in MetricTypes : SetMetricType(type)

SpecBands == InitBands /\ [][NextBands]_vars

----------------------------------------------------------------------------
(* Input tables for the Local Area Ranker: up to MaxAreaRows records of    *)
(* the latest epoch, each of constituency "a" or "b", on an age band, an   *)
(* employment band or a metric of neither catalogue; the age-band records  *)
(* of "a" have a target that is zero or positive.                          *)

AreaNames == {<<"a">>, <<"b">>}

AreaRows ==
    [name : {<<"a">>}, metric : {AgeBands[1], AgeBands[2]}, target : {0, 10}]
    \cup [name : AreaNames, metric : {EmploymentBands[1], M_generic}, target : {10}]
    \cup [name : {<<"b">>}, metric : {AgeBands[1]}, target : {10}]

AreaTable(rows) ==
    [i \in DOMAIN rows |->
        Rec(rows[i].name, rows[i].metric, rows[i].target + i, rows[i].target,
            IF i % 2 = 1 THEN -i ELSE i, 60 * i, 5)]

AreaTables ==
    {AreaTable(rows) : rows \in UNION {[1..k -> AreaRows] : k \in 0..MaxAreaRows}}

InitAreas ==
    /\ data \in AreaTables
    /\ Loaded

NextAreas ==
    \/ RenderPass
    \/ \E type \in {"age", "employment"} : SetAnalysisType(type)
    \/ \E mode \in {"single", "comparison"} : SetViewMode(mode)
    \/ \E constituency \in AreaNames : SetSelectedConstituency(constituency)
    \/ \E constituency \in AreaNames : SetComparisonConstituency(constituency)

SpecAreas == InitAreas /\ [][NextAreas]_vars

(* Ranked tables: up to MaxRankedAreas constituencies in one epoch, each   *)
(* with no catalogue record, one age point (low or high error) or two age  *)
(* points, so that more than five areas are ranked and areas without       *)
(* points and with unequal numbers of points stand side by side.           *)

RankedRows(name, profile) ==
    CASE profile = "none" -> <<Rec(name, M_generic, 3, 10, 1, 500, 5)>>
      [] profile = "low" -> <<Rec(name, AgeBands[1], 11, 10, 1, 60, 5)>>
      [] profile = "high" -> <<Rec(name, AgeBands[1], 12, 10, 2, 200, 5)>>
      [] profile = "two" -> <<Rec(name, AgeBands[1], 11, 10, 1, 60, 5),
                              Rec(name, AgeBands[2], 7, 10, -3, 121, 5)>>

RECURSIVE RankedTable(_)
RankedTable(profiles) ==
    IF profiles = <<>> THEN <<>>
    ELSE RankedTable(SubSeq(profiles, 1, Len(profiles) - 1))
         \o RankedRows(<<Chars[CharCode("a") + Len(profiles) - 1]>>, profiles[Len(profiles)])

RankedTables ==
    {RankedTable(profiles) :
        profiles \in UNION {[1..n -> {"none", "low", "high", "two"}] : n \in 0..MaxRankedAreas}}

InitRanking ==
    /\ data \in RankedTables
    /\ Loaded

SpecRanking == InitRanking /\ [][RenderPass]_vars

(* Responses of the fetch: a header line and up to MaxCsvRows data rows,   *)
(* each well formed (10 fields), longer (11), malformed (9 fields, or one), *)
(* blank, of white space, or of 10 fields that are not numbers; with or    *)
(* without a final newline.  The metric of row i ends in i.  A response    *)
(* can also be a text on which the try block throws, or a rejection.       *)

RECURSIVE Join(_, _)
Join(parts, sep) ==
    IF Len(parts) = 0 THEN <<>>
    ELSE IF Len(parts) = 1 THEN parts[1]
    ELSE Join(SubSeq(parts, 1, Len(parts) - 1), sep) \o sep \o parts[Len(parts)]

RowShapes == {"good", "long", "short", "one", "blank", "spaces", "junk"}

RowMetric(i) == <<"m">> \o FormatDigits(i)

GoodFields(i) ==
    <<FormatDigits(i), <<"a">>, RowMetric(i), FormatDigits(10 + i), <<"1", "0">>, FormatDigits(i),
      FormatDigits(i), <<"0", ".", "0", "6">>, <<"T", "r", "u", "e">>, <<"5">>>>

RowText(shape, i) ==
    CASE shape = "good" -> Join(GoodFields(i), <<",">>)
      [] shape = "long" -> Join(GoodFields(i) \o <<<<"x">>>>, <<",">>)
      [] shape = "short" -> Join(SubSeq(GoodFields(i), 1, 9), <<",">>)
      [] shape = "one" -> <<"x">>
      [] shape = "blank" -> <<>>
      [] shape = "spaces" -> <<" ", " ">>
      [] shape = "junk" -> Join(<<FormatDigits(i), <<"b">>, RowMetric(i), <<"x">>, <<>>, <<"n", "a", "n">>,
                                  <<"x">>, <<".">>, <<"x">>, <<>>>>, <<",">>)

CsvHeader == Join(<<<<"i">>, <<"n">>, <<"m">>, <<"e">>, <<"t">>, <<"r">>, <<"a">>, <<"l">>,
                    <<"v">>, <<"p">>>>, <<",">>)

CsvText(rows, end) ==
    Join(<<CsvHeader>> \o [i \in DOMAIN rows |-> RowText(rows[i], i)], <<"\n">>) \o end

Responses ==
    {[k |-> "text", text |-> CsvText(rows, end), rows |-> rows] :
        rows \in UNION {[1..n -> RowShapes] : n \in 0..MaxCsvRows},
        end \in {<<>>, <<"\n">>}}
    \cup {[k |-> "text", text |-> <<>>, rows |-> <<>>], [k |-> "throws"], [k |-> "rejected"]}

\* Home after construction: the fetch is under way
InitIngest ==
    /\ response \in Responses
    /\ loading = TRUE
    /\ data = <<>>
    /\ Unrendered

SpecIngest == InitIngest /\ [][FetchResolved \/ FetchRejected \/ RenderPass]_vars

\* a settled promise runs its callback: neither handler waits for ever
SpecIngestFair == SpecIngest /\ WF_vars(FetchResolved) /\ WF_vars(FetchRejected)

(* Tables with ties: up to MaxTieRows records of constituency "a" in one   *)
(* epoch, each on a pension amount band or on an age band, with one of two *)
(* relative errors, so that points of equal error stand in one series.     *)

TieRows ==
    [metric : {BuildMetric(BandTuple(S_pension, "amount", FiniteBand)),
               BuildMetric(BandTuple(S_pension, "amount", MiddleBand)),
               BuildMetric(BandTuple(S_pension, "amount", OpenBand)),
               AgeBands[1], AgeBands[2]},
     rel : {20, 160}]

TieTables ==
    {[i \in DOMAIN rows |->
         Rec(<<"a">>, rows[i].metric, 100 + i, 10, i, rows[i].rel, 5)] :
        rows \in UNION {[1..k -> TieRows] : k \in 0..MaxTieRows}}

InitTies ==
    /\ data \in TieTables
    /\ Loaded

SpecTies == InitTies /\ [][RenderPass]_vars

----------------------------------------------------------------------------
(* What the five widgets have on screen *)

Views == <<summary, charts, incomeBands, localAreas, lineChart>>

\* the widget computed its epoch selection
HasSelection(v) == "sel" \in DOMAIN v

EpochsOf(d) == {d[i].epoch : i \in DOMAIN d}

NonNegativeEpochs(d) == \A i \in DOMAIN d : d[i].epoch >= 0

----------------------------------------------------------------------------
(* C1: for every table, the Epoch Selector (cap 100) selects at most        *)
(* cap + 1 = 101 epochs, whatever the number of distinct epochs.           *)
C1_SelectedAtMostCapPlusOne ==
    \A w \in DOMAIN Views :
        HasSelection(Views[w]) =>
            Len(Views[w].sel.selectedEpochs) <= EpochCap + 1

(* C2: for every non-empty table of non-negative epochs, the maximum epoch *)
(* of the table is among the selected epochs, also when its index in the   *)
(* sorted distinct epochs is not a multiple of the step.                   *)
C2_MaxEpochSelected ==
    \A w \in DOMAIN Views :
        (HasSelection(Views[w]) /\ Len(data) > 0 /\ NonNegativeEpochs(data)) =>
            LET sel == Views[w].sel
            IN  /\ sel.maxEpoch \in EpochsOf(data)
                /\ \A i \in DOMAIN data : data[i].epoch <= sel.maxEpoch
                /\ sel.maxEpoch \in Range(sel.selectedEpochs)

\* a widget shows a downsampled selection whose maximum epoch sits at an
\* index that is not a multiple of the step
C2_Witness ==
    \E w \in DOMAIN Views :
        /\ HasSelection(Views[w])
        /\ NonNegativeEpochs(data)
        /\ Views[w].sel.epochStep > 1
        /\ (Len(Views[w].sel.allEpochs) - 1) % Views[w].sel.epochStep # 0
        /\ Views[w].sel.maxEpoch \in Range(Views[w].sel.selectedEpochs)

(* C3: when the table has at most 100 distinct epochs, the selected epochs *)
(* are exactly the distinct epochs and the filtered table is the input     *)
(* table.                                                                  *)
C3_NoDownsamplingBelowCap ==
    \A w \in DOMAIN Views :
        (HasSelection(Views[w]) /\ Cardinality(EpochsOf(data)) <= 100) =>
            /\ Range(Views[w].sel.selectedEpochs) = EpochsOf(data)
            /\ Len(Views[w].sel.selectedEpochs) = Cardinality(EpochsOf(data))
            /\ Views[w].sel.filteredData = data

\* a widget shows a table of exactly 100 distinct epochs, several records each
C3_Witness ==
    \E w \in DOMAIN Views :
        /\ HasSelection(Views[w])
        /\ Cardinality(EpochsOf(data)) = 100
        /\ Len(data) > 100
        /\ Views[w].sel.filteredData = data

\* E[i] for the 0-based indices i that are multiples of step
AtMultiplesOf(E, step) == {E[i] : i \in {j \in DOMAIN E : (j - 1) % step = 0}}

\* the statement of C4 about one selection
StepRule(sel) ==
    /\ \A i \in 1..(Len(sel.allEpochs) - 1) : sel.allEpochs[i] < sel.allEpochs[i + 1]
    /\ Range(sel.allEpochs) = EpochsOf(data)
    /\ sel.epochStep = Max2(1, Len(sel.allEpochs) \div 100)
    /\ Range(sel.selectedEpochs) =
           AtMultiplesOf(sel.allEpochs, sel.epochStep) \cup {sel.maxEpoch}
    /\ Cardinality(Range(sel.selectedEpochs)) = Len(sel.selectedEpochs)
    /\ (EpochsOf(data) = 1..250) =>
           /\ sel.epochStep = 2
           /\ Range(sel.selectedEpochs) = {e \in 1..249 : e % 2 = 1} \cup {250}
           /\ Len(sel.selectedEpochs) = 126

(* C4 as stated: with E the ascending distinct epochs and                  *)
(* step = max(1, floor(|E| / 100)), the selected set is                    *)
(* { E[i] : i mod step = 0 } united with { maxEpoch }, for every table;    *)
(* for epochs 1..250 the step is 2 and {1,3,...,249,250}, 126 epochs, are  *)
(* selected.                                                               *)
C4_StepRuleEveryTable ==
    \A w \in DOMAIN Views : HasSelection(Views[w]) => StepRule(Views[w].sel)

(* C4 amended: the same, for every non-empty table of non-negative epochs. *)
C4_StepRule ==
    \A w \in DOMAIN Views :
        (HasSelection(Views[w]) /\ Len(data) > 0 /\ NonNegativeEpochs(data)) =>
            StepRule(Views[w].sel)

\* a widget shows the table of epochs 1..250 with its 126 selected epochs
C4_Witness ==
    \E w \in DOMAIN Views :
        /\ HasSelection(Views[w])
        /\ EpochsOf(data) = 1..250
        /\ Len(Views[w].sel.selectedEpochs) = 126

----------------------------------------------------------------------------
\* the number of entries of a sequence of records whose rel_abs_error is in [lo, hi)
RelErrorsIn(items, lo, hi) ==
    Cardinality({i \in DOMAIN items :
                    items[i].rel_abs_error >= lo /\ items[i].rel_abs_error < hi})

RelErrorsFrom(items, lo) ==
    Cardinality({i \in DOMAIN items : items[i].rel_abs_error >= lo})

RelErrorsBelow(items, hi) ==
    Cardinality({i \in DOMAIN items : items[i].rel_abs_error < hi})

\* the three counts of a widget partition the records it classified
TierPartition(items, excellentCount, goodCount, poorCount) ==
    /\ excellentCount = RelErrorsBelow(items, 50)
    /\ goodCount = RelErrorsIn(items, 50, 200)
    /\ poorCount = RelErrorsFrom(items, 200)
    /\ excellentCount + goodCount + poorCount = Len(items)

(* C5: the quality tiers partition the classified records: each record is  *)
(* counted in exactly one of Excellent (< 0.05), Good (>= 0.05 and < 0.20) *)
(* and Poor (>= 0.20), the three counts add up to the number of records,   *)
(* and the values 0.05 and 0.20 themselves count as Good and Poor; in      *)
(* MetricsSummary and in the quality breakdown of IncomeBands.             *)
C5_TiersPartition ==
    /\ summary.status = "ok" =>
           TierPartition(summary.latestData, summary.excellentCount,
                         summary.goodCount, summary.poorCount)
    /\ incomeBands.status = "ok" =>
           TierPartition(incomeBands.bandsData, incomeBands.excellentCount,
                         incomeBands.goodCount, incomeBands.poorCount)

\* both widgets have classified records at both boundary values and below 0.05
C5_Witness ==
    /\ summary.status = "ok"
    /\ incomeBands.status = "ok"
    /\ \E i \in DOMAIN summary.latestData : summary.latestData[i].rel_abs_error = 50
    /\ \E i \in DOMAIN summary.latestData : summary.latestData[i].rel_abs_error = 200
    /\ \E i \in DOMAIN incomeBands.bandsData : incomeBands.bandsData[i].rel_abs_error = 50
    /\ \E i \in DOMAIN incomeBands.bandsData : incomeBands.bandsData[i].rel_abs_error = 200
    /\ summary.excellentCount = 1
    /\ summary.goodCount = 1
    /\ summary.poorCount = 1

\* the records of the table at its greatest epoch
RecordsOfMaxEpoch(d) ==
    SelectSeq(d, LAMBDA r : \A j \in DOMAIN d : d[j].epoch <= r.epoch)

(* C6: the quality score is (excellentCount * 100 + goodCount * 75) / total*)
(* over the records of the maximum epoch, Poor records adding nothing; for *)
(* relative errors 0.02, 0.10, 0.30 the counts are 1, 1, 1 and the score   *)
(* shown is 58.3.                                                          *)
C6_QualityScore ==
    summary.status = "ok" =>
        LET latest == RecordsOfMaxEpoch(data)
            excellent == RelErrorsBelow(latest, 50)
            good == RelErrorsIn(latest, 50, 200)
        IN  /\ summary.totalEntries = Len(latest)
            /\ summary.score.num = excellent * 100 + good * 75
            /\ summary.score.den = Len(latest)
            /\ ~summary.qualityScore.nan
            /\ 2 * Abs(10 * summary.score.num - summary.qualityScore.tenths * summary.score.den)
                   <= summary.score.den
            /\ [i \in DOMAIN latest |-> latest[i].rel_abs_error] = <<20, 100, 300>> =>
                   /\ summary.excellentCount = 1
                   /\ summary.goodCount = 1
                   /\ summary.poorCount = 1
                   /\ summary.qualityScore.tenths = 583

\* MetricsSummary shows 58.3 for the errors 0.02, 0.10, 0.30 of the latest
\* epoch, the table holding a Poor record of an older epoch too
C6_Witness ==
    /\ summary.status = "ok"
    /\ Len(data) = 4
    /\ [i \in DOMAIN summary.latestData |-> summary.latestData[i].rel_abs_error]
           = <<20, 100, 300>>
    /\ summary.qualityScore.tenths = 583

----------------------------------------------------------------------------
\* the areas LocalAreas has computed: the primary one, the compared one and
\* those of the overview
AreasShown ==
    {localAreas.primaryData}
    \cup Range(localAreas.comparisonData)
    \cup Range(localAreas.overviewData.allAreas)

\* neither NaN nor 0
NeitherNaNNorZero(q) == ~IsNaN(q) /\ q.num # 0

(* C7: a quality score, a per-area mean relative error or an overall       *)
(* average over zero eligible records is never computed as NaN (0/0) and   *)
(* never coerced to 0: in MetricsSummary, in the avgRelError of an area of *)
(* LocalAreas and in the overview average of LocalAreas.                   *)
C7_EmptyDenominatorNotApplicable ==
    /\ (summary.status = "ok" /\ summary.totalEntries = 0) =>
           NeitherNaNNorZero(summary.score)
    /\ localAreas.status = "ok" =>
           /\ \A area \in AreasShown :
                  Len(area.dataPoints) = 0 => NeitherNaNNorZero(area.avgRelError)
           /\ Len(localAreas.overviewData.sorted) = 0 =>
                  NeitherNaNNorZero(localAreas.overviewData.average)

----------------------------------------------------------------------------
(* C8: metric parsing is total and never throws: whatever the metric       *)
(* strings of the table (empty, without underscores, with income_band_<N>_ *)
(* but no "_to_" separator), the parser gives IncomeBands a band or "no    *)
(* structure", so that IncomeBands never fails to render because the       *)
(* parser threw.                                                           *)
C8_ParseNeverThrows ==
    /\ incomeBands.status # "error"
    /\ pc # "crashed"

----------------------------------------------------------------------------
EndsWith(s, suffix) == MatchesAt(s, suffix, Len(s) - Len(suffix) + 1)

W_count_suffix == <<"_", "c", "o", "u", "n", "t">>

\* the points of the series on screen that come from one record of the table
\* (the estimates of a band table are pairwise distinct)
PointsOf(item) ==
    {j \in DOMAIN incomeBands.bandsData :
        incomeBands.bandsData[j].estimate = item.estimate}

\* the records of the latest epoch whose metric is built from the tuple t come
\* back as t: its source is the one extracted, its series is the one of its kind
\* and not of the other kind, its band has its index and its bounds
RoundTrip(t) ==
    \A i \in DOMAIN incomeBands.latestData :
        incomeBands.latestData[i].metric = BuildMetric(t) =>
            /\ SourcesOfMetric(BuildMetric(t)) = {t.source}
            /\ t.source \in Range(incomeBands.incomeSources)
            /\ (selectedSource = t.source /\ metricType # t.kind) =>
                   PointsOf(incomeBands.latestData[i]) = {}
            /\ (selectedSource = t.source /\ metricType = t.kind) =>
                   \E j \in PointsOf(incomeBands.latestData[i]) :
                       /\ incomeBands.bandsData[j].band.bandNumber = t.shape.bandIndex
                       /\ incomeBands.bandsData[j].band.lowerBound = Num(t.shape.lowerBound)
                       /\ incomeBands.bandsData[j].band.upperBound = t.shape.upperBound

(* C9 as stated: for every (source, kind, bandIndex other than 55, lower   *)
(* bound, finite or open-ended upper bound), building the metric string    *)
(* hmrc/<source>_[count_]income_band_<N>_<lower>_to_<upper or inf>, its    *)
(* numbers written with or without "_" separators, and parsing it gives    *)
(* back the same source, kind, band index and bounds.                      *)
C9_RoundTripEverySource ==
    incomeBands.status = "ok" =>
        \A t \in BandTuples : t.shape.bandIndex # 55 => RoundTrip(t)

(* C9 amended: the same, for the sources whose name does not end in        *)
(* "_count".                                                               *)
C9_RoundTrip ==
    incomeBands.status = "ok" =>
        \A t \in BandTuples :
            (t.shape.bandIndex # 55 /\ ~EndsWith(t.source, W_count_suffix)) => RoundTrip(t)

\* "hmrc/pension_income_band_3_10_000_to_20_000"
M_pension_band_3 ==
    <<"h", "m", "r", "c", "/", "p", "e", "n", "s", "i", "o", "n", "_">>
    \o <<"i", "n", "c", "o", "m", "e", "_", "b", "a", "n", "d", "_", "3", "_">>
    \o <<"1", "0", "_", "0", "0", "0", "_", "t", "o", "_", "2", "0", "_", "0", "0", "0">>

\* IncomeBands shows source pension, kind amount, with the band 3 from 10000
\* to 20000 of the record hmrc/pension_income_band_3_10_000_to_20_000
C9_Witness ==
    /\ incomeBands.status = "ok"
    /\ selectedSource = S_pension
    /\ metricType = "amount"
    /\ \E i \in DOMAIN incomeBands.latestData :
           /\ incomeBands.latestData[i].metric = M_pension_band_3
           /\ \E t \in BandTuples : BuildMetric(t) = M_pension_band_3
           /\ \E j \in PointsOf(incomeBands.latestData[i]) :
                  /\ incomeBands.bandsData[j].band.bandNumber = 3
                  /\ incomeBands.bandsData[j].band.lowerBound = Num(10000)
                  /\ incomeBands.bandsData[j].band.upperBound = Num(20000)

----------------------------------------------------------------------------
\* the (source, kind) combinations in whose band series a record appears
SeriesHolding(item) ==
    {sk \in Range(incomeBands.incomeSources) \X MetricTypes :
        \E j \in DOMAIN BandsData(incomeBands.latestData, sk[1], sk[2]).bands :
            BandsData(incomeBands.latestData, sk[1], sk[2]).bands[j].estimate = item.estimate}

\* no band metric of the latest epoch lacks its "_to_" separator
NoneThrows == \A i \in DOMAIN incomeBands.latestData :
                  ParseBand(incomeBands.latestData[i].metric).r # "throws"

(* C10: every banded record of the maximum epoch is in the band series of  *)
(* exactly one combination of extracted income source and metric type,     *)
(* also when a source name ends in "_count".                               *)
C10_ExactlyOneSeries ==
    (incomeBands.status = "ok" /\ NoneThrows) =>
        \A i \in DOMAIN incomeBands.latestData :
            (/\ ParseBand(incomeBands.latestData[i].metric).r = "band"
             /\ ParseBand(incomeBands.latestData[i].metric).bandNumber # 55) =>
                Cardinality(SeriesHolding(incomeBands.latestData[i])) = 1

----------------------------------------------------------------------------
\* the records of the latest epoch that carry the total band (55) of the
\* selected source and kind
TotalsOfSelection ==
    {i \in DOMAIN incomeBands.latestData :
        incomeBands.latestData[i].metric =
            BuildMetric(BandTuple(selectedSource, metricType, TotalBand))}

(* C11: for every table and every selected (source, kind), the band series *)
(* is sorted ascending by lowerBound and holds no point of band index 55.  *)
C11_SortedWithoutTotal ==
    incomeBands.status = "ok" =>
        /\ \A j \in 1..(Len(incomeBands.bandsData) - 1) :
               /\ incomeBands.bandsData[j].band.lowerBound.k = "num"
               /\ incomeBands.bandsData[j + 1].band.lowerBound.k = "num"
               /\ incomeBands.bandsData[j].band.lowerBound.v
                      <= incomeBands.bandsData[j + 1].band.lowerBound.v
        /\ \A j \in DOMAIN incomeBands.bandsData :
               incomeBands.bandsData[j].band.bandNumber # 55

\* the latest epoch holds the total band of the selection and two of its
\* bands, the higher one first in the table; the series shows them in order
C11_Witness ==
    /\ incomeBands.status = "ok"
    /\ TotalsOfSelection # {}
    /\ Len(incomeBands.bandsData) = 2
    /\ \E i \in DOMAIN incomeBands.latestData :
           /\ incomeBands.latestData[i].metric =
                  BuildMetric(BandTuple(S_pension, "amount", OpenBand))
           /\ incomeBands.latestData[i].estimate = incomeBands.bandsData[2].estimate
           /\ \E k \in (i + 1)..Len(incomeBands.latestData) :
                  incomeBands.latestData[k].estimate = incomeBands.bandsData[1].estimate

(* C12: for every table and every selected (source, kind), each band index *)
(* occurs at most once in the band series and the lowerBound values are    *)
(* strictly increasing along it.                                           *)
C12_BandsStrictlyOrdered ==
    incomeBands.status = "ok" =>
        /\ \A j \in DOMAIN incomeBands.bandsData :
               \A k \in DOMAIN incomeBands.bandsData :
                   incomeBands.bandsData[j].band.bandNumber =
                       incomeBands.bandsData[k].band.bandNumber => j = k
        /\ \A j \in 1..(Len(incomeBands.bandsData) - 1) :
               incomeBands.bandsData[j].band.lowerBound.v
                   < incomeBands.bandsData[j + 1].band.lowerBound.v

\* the records of the latest epoch whose metric is a band, other than the
\* total, of the selected source and kind
RecordsOfSelection ==
    {i \in DOMAIN incomeBands.latestData :
        \E t \in BandTuples :
            /\ t.source = selectedSource
            /\ t.kind = metricType
            /\ t.shape.bandIndex # 55
            /\ incomeBands.latestData[i].metric = BuildMetric(t)}

\* the point carries the four values of the record
SameValues(point, item) ==
    /\ point.estimate = item.estimate
    /\ point.target = item.target
    /\ point.error = item.error
    /\ point.rel_abs_error = item.rel_abs_error

(* C13: the band series holds exactly one point per record of the maximum  *)
(* epoch whose metric is a band, other than 55, of the selected (source,   *)
(* kind), with the record's estimate, target, error and relative error     *)
(* unchanged; a band without a record gets no point and a record whose     *)
(* target is 0 is kept.                                                    *)
C13_OnePointPerRecord ==
    incomeBands.status = "ok" =>
        /\ Len(incomeBands.bandsData) = Cardinality(RecordsOfSelection)
        /\ \A i \in RecordsOfSelection :
               \E j \in DOMAIN incomeBands.bandsData :
                   SameValues(incomeBands.bandsData[j], incomeBands.latestData[i])
        /\ \A j \in DOMAIN incomeBands.bandsData :
               \E i \in RecordsOfSelection :
                   SameValues(incomeBands.bandsData[j], incomeBands.latestData[i])

\* source pension, kind amount: the series is the one record of target 0 of
\* the latest epoch; the bands 7 and 12 have no record and no point, and the
\* band 3 of the older epoch gives no point
C13_Witness ==
    /\ incomeBands.status = "ok"
    /\ selectedSource = S_pension
    /\ metricType = "amount"
    /\ Len(incomeBands.bandsData) = 1
    /\ incomeBands.bandsData[1].target = 0
    /\ incomeBands.bandsData[1].band.bandNumber = 3
    /\ \E i \in DOMAIN data : data[i].epoch = 4 /\ data[i].estimate = 7

----------------------------------------------------------------------------
\* the areas of the ranked output: the best list, the worst list and the
\* areas averaged
AreasRanked ==
    Range(localAreas.overviewData.best)
    \cup Range(localAreas.overviewData.worst)
    \cup Range(localAreas.overviewData.sorted)

(* C14: the ranked output (best list, worst list, the areas averaged for   *)
(* the overall figure) never holds an area with zero surviving points, for *)
(* the age and for the employment analysis.                                *)
C14_RankedAreasHavePoints ==
    localAreas.status = "ok" =>
        \A area \in AreasRanked : Len(area.dataPoints) > 0

\* the employment analysis of two constituencies, one with a point and one
\* without: only the first is ranked
C14_Witness ==
    /\ localAreas.status = "ok"
    /\ analysisType = "employment"
    /\ Len(localAreas.overviewData.allAreas) = 2
    /\ \E i \in DOMAIN localAreas.overviewData.allAreas :
           Len(localAreas.overviewData.allAreas[i].dataPoints) = 0
    /\ Len(localAreas.overviewData.best) = 1
    /\ Len(localAreas.overviewData.worst) = 1

----------------------------------------------------------------------------
\* ageBands or employmentBands, those of the analysis on screen
CatalogueShown == IF analysisType = "age" THEN AgeBands ELSE EmploymentBands

\* record i of the latest epoch is of the constituency and on the metric
RecordOn(i, constituency, metric) ==
    /\ localAreas.latestData[i].name = constituency
    /\ localAreas.latestData[i].metric = metric

\* the catalogue entries for which the constituency has a record of positive target
EntriesWithTarget(constituency) ==
    {b \in DOMAIN CatalogueShown :
        \E i \in DOMAIN localAreas.latestData :
            /\ RecordOn(i, constituency, CatalogueShown[b])
            /\ localAreas.latestData[i].target > 0}

\* the catalogue entries for which the first record of the constituency on the
\* entry's metric has a positive target
EntriesWithFirstTarget(constituency) ==
    {b \in DOMAIN CatalogueShown :
        \E i \in DOMAIN localAreas.latestData :
            /\ RecordOn(i, constituency, CatalogueShown[b])
            /\ \A k \in 1..(i - 1) : ~RecordOn(k, constituency, CatalogueShown[b])
            /\ localAreas.latestData[i].target > 0}

\* the points of the area are those of the entries, in catalogue order, none
\* with a target of zero
PointsAre(area, entries) ==
    /\ {area.dataPoints[j].category : j \in DOMAIN area.dataPoints} = entries
    /\ \A j \in 1..(Len(area.dataPoints) - 1) :
           area.dataPoints[j].category < area.dataPoints[j + 1].category
    /\ \A j \in DOMAIN area.dataPoints : area.dataPoints[j].target > 0

(* C15 as stated: the surviving points of an area are exactly the          *)
(* catalogue entries for which the area has a record of the maximum epoch  *)
(* on the entry's metric with target > 0, in catalogue order; an entry     *)
(* without such a record yields no point.                                  *)
C15_PointsOfAnyRecord ==
    localAreas.status = "ok" =>
        \A area \in AreasShown : PointsAre(area, EntriesWithTarget(area.constituency))

(* C15 amended: the same, the record of an entry being the first record of *)
(* the area on the entry's metric.                                         *)
C15_PointsOfFirstRecord ==
    localAreas.status = "ok" =>
        \A area \in AreasShown : PointsAre(area, EntriesWithFirstTarget(area.constituency))

\* constituency "a" has a record of target 0 on the first age band and one of
\* positive target on the second: its only point is the second band
C15_Witness ==
    /\ localAreas.status = "ok"
    /\ analysisType = "age"
    /\ localAreas.primaryData.constituency = <<"a">>
    /\ Len(localAreas.primaryData.dataPoints) = 1
    /\ localAreas.primaryData.dataPoints[1].category = 2
    /\ \E i \in DOMAIN localAreas.latestData :
           /\ RecordOn(i, <<"a">>, AgeBands[1])
           /\ localAreas.latestData[i].target = 0

----------------------------------------------------------------------------
(* C17: the widgets that computed an epoch selection from the table agree  *)
(* on it: the same maxEpoch, the same selected epochs and the same         *)
(* filtered table, whether the fold is behind the length guard or not.     *)
C17_SameSelection ==
    \A v, w \in DOMAIN Views :
        HasSelection(Views[v]) /\ HasSelection(Views[w]) =>
            /\ Views[v].sel.maxEpoch = Views[w].sel.maxEpoch
            /\ Views[v].sel.selectedEpochs = Views[w].sel.selectedEpochs
            /\ Views[v].sel.filteredData = Views[w].sel.filteredData

\* the five widgets rendered a table whose epochs are downsampled
C17_Witness ==
    /\ pc = "done"
    /\ \A w \in DOMAIN Views : HasSelection(Views[w])
    /\ summary.sel.epochStep > 1
    /\ Len(lineChart.sel.filteredData) < Len(data)
    /\ lineChart.sel.maxEpoch = summary.sel.maxEpoch

----------------------------------------------------------------------------
----------------------------------------------------------------------------
\* the areas of the overview that kept at least one point
Eligible(o) == {i \in DOMAIN o.allAreas : Len(o.allAreas[i].dataPoints) > 0}

\* x is strictly below y by mean relative error
MeanBelow(x, y) ==
    x.avgRelError.num * y.avgRelError.den < y.avgRelError.num * x.avgRelError.den

\* `list` holds min(5, eligible) distinct eligible areas
FiveEligible(o, list) ==
    /\ Len(list) = IF Cardinality(Eligible(o)) < 5 THEN Cardinality(Eligible(o)) ELSE 5
    /\ \A k \in DOMAIN list : \E i \in Eligible(o) : o.allAreas[i] = list[k]
    /\ \A k, l \in DOMAIN list : k # l => list[k].constituency # list[l].constituency

\* the eligible areas that `list` leaves out
LeftOut(o, list) ==
    {i \in Eligible(o) : \A k \in DOMAIN list : list[k] # o.allAreas[i]}

(* C19: the best list is the five eligible areas of lowest mean relative   *)
(* error in ascending order, the worst list the five of highest mean in    *)
(* descending order; no area left out of the best list is strictly below   *)
(* one in it, none left out of the worst list strictly above one in it.    *)
C19_BestAndWorstFive ==
    localAreas.status = "ok" =>
        /\ FiveEligible(localAreas.overviewData, localAreas.overviewData.best)
        /\ FiveEligible(localAreas.overviewData, localAreas.overviewData.worst)
        /\ \A k, l \in DOMAIN localAreas.overviewData.best :
               k < l => ~MeanBelow(localAreas.overviewData.best[l],
                                   localAreas.overviewData.best[k])
        /\ \A k, l \in DOMAIN localAreas.overviewData.worst :
               k < l => ~MeanBelow(localAreas.overviewData.worst[k],
                                   localAreas.overviewData.worst[l])
        /\ \A i \in LeftOut(localAreas.overviewData, localAreas.overviewData.best) :
               \A k \in DOMAIN localAreas.overviewData.best :
                   ~MeanBelow(localAreas.overviewData.allAreas[i],
                              localAreas.overviewData.best[k])
        /\ \A i \in LeftOut(localAreas.overviewData, localAreas.overviewData.worst) :
               \A k \in DOMAIN localAreas.overviewData.worst :
                   ~MeanBelow(localAreas.overviewData.worst[k],
                              localAreas.overviewData.allAreas[i])

\* six areas are ranked, out of table order; the best list leaves out an
\* area strictly above its last and the worst list one strictly below its last
C19_Witness ==
    /\ localAreas.status = "ok"
    /\ Cardinality(Eligible(localAreas.overviewData)) = 6
    /\ Len(localAreas.overviewData.best) = 5
    /\ Len(localAreas.overviewData.worst) = 5
    /\ MeanBelow(localAreas.overviewData.allAreas[2], localAreas.overviewData.allAreas[1])
    /\ \E i \in LeftOut(localAreas.overviewData, localAreas.overviewData.best) :
           MeanBelow(localAreas.overviewData.best[5], localAreas.overviewData.allAreas[i])
    /\ \E i \in LeftOut(localAreas.overviewData, localAreas.overviewData.worst) :
           MeanBelow(localAreas.overviewData.allAreas[i], localAreas.overviewData.worst[5])

----------------------------------------------------------------------------
\* the mean relative error of an area, from its points
MeanOfPoints(area) == Quot(SumRelError(area.dataPoints), Len(area.dataPoints))

\* the sum of the means of the areas of S, one term for each area
RECURSIVE SumOfMeans(_, _)
SumOfMeans(o, S) ==
    IF S = {} THEN Quot(0, 1)
    ELSE LET i == CHOOSE x \in S : TRUE
         IN  AddQuot(SumOfMeans(o, S \ {i}), MeanOfPoints(o.allAreas[i]))

\* the sum of the relative errors of all the points of the areas of S
RECURSIVE SumOfPoints(_, _)
SumOfPoints(o, S) ==
    IF S = {} THEN 0
    ELSE LET i == CHOOSE x \in S : TRUE
         IN  SumOfPoints(o, S \ {i}) + SumRelError(o.allAreas[i].dataPoints)

RECURSIVE CountOfPoints(_, _)
CountOfPoints(o, S) ==
    IF S = {} THEN 0
    ELSE LET i == CHOOSE x \in S : TRUE
         IN  CountOfPoints(o, S \ {i}) + Len(o.allAreas[i].dataPoints)

\* x = sum / n, for quotients with non-zero denominators
IsMean(x, sum, n) ==
    /\ x.den # 0
    /\ x.num * sum.den * n = sum.num * x.den

(* C20: when some area has a point, the overall average is the sum of the  *)
(* mean relative errors of the areas with at least one point divided by    *)
(* the number of those areas: an area without points adds nothing to the   *)
(* sum or to the divisor, an area with several points counts once.         *)
C20_UnweightedMeanOfEligible ==
    (localAreas.status = "ok" /\ Eligible(localAreas.overviewData) # {}) =>
        IsMean(localAreas.overviewData.average,
               SumOfMeans(localAreas.overviewData, Eligible(localAreas.overviewData)),
               Cardinality(Eligible(localAreas.overviewData)))

\* an area without points stands next to areas with one and with two
\* points, and the average shown is not the mean over all the points
C20_Witness ==
    /\ localAreas.status = "ok"
    /\ \E i \in DOMAIN localAreas.overviewData.allAreas :
           Len(localAreas.overviewData.allAreas[i].dataPoints) = 0
    /\ \E i, j \in Eligible(localAreas.overviewData) :
           /\ Len(localAreas.overviewData.allAreas[i].dataPoints) = 1
           /\ Len(localAreas.overviewData.allAreas[j].dataPoints) = 2
    /\ localAreas.overviewData.average.den # 0
    /\ ~IsMean(localAreas.overviewData.average,
               Quot(SumOfPoints(localAreas.overviewData, Eligible(localAreas.overviewData)), 1),
               CountOfPoints(localAreas.overviewData, Eligible(localAreas.overviewData)))

----------------------------------------------------------------------------
\* the data rows of a response that are not blank and have at least 10 fields
Accepted(rows) ==
    SelectSeq([i \in DOMAIN rows |-> i], LAMBDA i : rows[i] \in {"good", "long", "junk"})

\* the record of data row i, when its numbers are well formed
GoodRecord(i) == Rec(<<"a">>, RowMetric(i), 10 + i, 10, i, 60, 5)

(* C16: once a response text is loaded, the table holds one record for     *)
(* each data row that is not blank and has at least 10 fields, in the      *)
(* order of the rows; rows of fewer than 10 fields are skipped and the     *)
(* rows after them are kept.                                               *)
C16_OneRecordPerWellFormedRow ==
    (~loading /\ response.k = "text") =>
        /\ Len(data) = Len(Accepted(response.rows))
        /\ \A n \in DOMAIN data :
               /\ data[n].metric = RowMetric(Accepted(response.rows)[n])
               /\ response.rows[Accepted(response.rows)[n]] \in {"good", "long"} =>
                      data[n] = GoodRecord(Accepted(response.rows)[n])

\* a malformed row stands between two well-formed ones, and both are loaded
C16_Witness ==
    /\ ~loading
    /\ response.k = "text"
    /\ Len(response.rows) = 3
    /\ response.rows[1] = "good"
    /\ response.rows[2] = "short"
    /\ response.rows[3] = "long"
    /\ data = <<GoodRecord(1), GoodRecord(3)>>

----------------------------------------------------------------------------
\* the first position of the least relative error of a non-empty list
FirstLeast(points) ==
    CHOOSE i \in DOMAIN points :
        /\ \A j \in DOMAIN points : points[i].rel_abs_error <= points[j].rel_abs_error
        /\ \A j \in 1..(i - 1) : points[j].rel_abs_error > points[i].rel_abs_error

\* the first position of the greatest relative error of a non-empty list
FirstGreatest(points) ==
    CHOOSE i \in DOMAIN points :
        /\ \A j \in DOMAIN points : points[i].rel_abs_error >= points[j].rel_abs_error
        /\ \A j \in 1..(i - 1) : points[j].rel_abs_error < points[i].rel_abs_error

\* the pair shown is the first least and the first greatest point of the list
FirstOfTies(shown, points) ==
    Len(points) > 0 =>
        /\ shown[1] = points[FirstLeast(points)]
        /\ shown[2] = points[FirstGreatest(points)]

(* C21: the best band and the worst band of a non-empty series, in         *)
(* IncomeBands and in the primary area of LocalAreas, are the points of    *)
(* least and of greatest relative error; among points of equal error the   *)
(* first one in the ascending order of the series is shown.                *)
C21_FirstOfTiedBands ==
    /\ incomeBands.status = "ok" =>
           FirstOfTies(incomeBands.bestAndWorst, incomeBands.bandsData)
    /\ localAreas.status = "ok" =>
           FirstOfTies(localAreas.bestAndWorst, localAreas.primaryData.dataPoints)

\* three bands, a higher one before a lower one in the table; the two lowest
\* of the series tie for the best and the first of them is shown
C21_Witness ==
    /\ pc = "done"
    /\ incomeBands.status = "ok"
    /\ Len(incomeBands.bandsData) = 3
    /\ incomeBands.bandsData[1].rel_abs_error = incomeBands.bandsData[2].rel_abs_error
    /\ incomeBands.bandsData[2].rel_abs_error < incomeBands.bandsData[3].rel_abs_error
    /\ incomeBands.bandsData[1].band.lowerBound.v < incomeBands.bandsData[2].band.lowerBound.v
    /\ incomeBands.bandsData[1].estimate > incomeBands.bandsData[2].estimate
    /\ incomeBands.bestAndWorst[1] = incomeBands.bandsData[1]
    /\ incomeBands.bestAndWorst[1] # incomeBands.bandsData[2]
    /\ incomeBands.bestAndWorst[2] = incomeBands.bandsData[3]

----------------------------------------------------------------------------
\* the outcomes other than a parse: a rejected fetch, an exception in the try
\* block, a text of fewer than 2 lines once trimmed
NotParsed ==
    \/ response.k \in {"rejected", "throws"}
    \/ /\ response.k = "text"
       /\ \A i \in DOMAIN response.rows : response.rows[i] \in {"blank", "spaces"}

(* C22: from loading = true, whatever the fetch settles with, loading      *)
(* becomes false and stays false; and when the outcome is not a parsed     *)
(* text (a rejection, an exception, fewer than 2 lines) the table is empty.*)
C22_LoadingEnds == <>[](~loading /\ (NotParsed => data = <<>>))

\* the try block threw: the page left the loading state with an empty table
\* and rendered its children
C22_Witness ==
    /\ response.k = "throws"
    /\ ~loading
    /\ data = <<>>
    /\ pc = "done"

----------------------------------------------------------------------------
(* C23: for every non-empty table whose epochs are non-negative, once the  *)
(* empty-table guard of MetricsSummary and of Charts has passed, the       *)
(* latest records are not empty: totalEntries and latestData.length, the   *)
(* divisors of the score and of the percentages, are not zero.             *)
C23_LatestNotEmpty ==
    (Len(data) > 0 /\ NonNegativeEpochs(data)) =>
        /\ summary.status = "ok" =>
               /\ summary.totalEntries > 0
               /\ summary.score.den > 0
               /\ ~summary.qualityScore.nan
        /\ charts.status = "ok" =>
               /\ Len(charts.latestData) > 0
               /\ \A i \in DOMAIN charts.distribution :
                      ~charts.distribution[i].percentage.nan

\* both widgets rendered a downsampled table of non-negative epochs whose
\* maximum epoch is kept only because it is forced in
C23_Witness ==
    /\ summary.status = "ok"
    /\ charts.status = "ok"
    /\ NonNegativeEpochs(data)
    /\ summary.sel.epochStep > 1
    /\ (Len(summary.sel.allEpochs) - 1) % summary.sel.epochStep # 0
    /\ summary.totalEntries = MaxRowsPerEpoch
    /\ Len(charts.latestData) = MaxRowsPerEpoch

----------------------------------------------------------------------------
\* the limits of the 7 bins of the histogram, in thousandths; the last bin
\* has no upper limit
BinFrom == <<0, 50, 100, 200, 300, 500, 1000>>

InInterval(v, i) ==
    /\ v >= BinFrom[i]
    /\ (i = Len(BinFrom) \/ v < BinFrom[i + 1])

\* the colour of the quality tier of a value
TierColor(v) ==
    IF IsExcellent(v) THEN "bg-green-500"
    ELSE IF IsGood(v) THEN "bg-yellow-500"
    ELSE "bg-red-500"

RECURSIVE SumOfCounts(_, _)
SumOfCounts(distribution, n) ==
    IF n = 0 THEN 0 ELSE SumOfCounts(distribution, n - 1) + distribution[n].count

\* the values the colours are compared on: the limits of the bins and of the
\* tiers, their neighbours, and values inside each bin
TierValues ==
    UNION {{BinFrom[i] - 1, BinFrom[i], BinFrom[i] + 1, BinFrom[i] + 25} : i \in DOMAIN BinFrom}
    \ {-1}

\* the histogram has the 7 bins, each of the colour of the tier of every
\* value of its interval
BinsAndColours ==
    /\ Len(charts.distribution) = Len(BinFrom)
    /\ \A i \in DOMAIN BinFrom :
           /\ charts.distribution[i].bin = BinFrom[i]
           /\ \A v \in TierValues :
                  InInterval(v, i) => charts.distribution[i].color = TierColor(v)

\* the records of the latest epoch with a finite relative error >= 0
FiniteNonNegative(items) ==
    Filter(items, LAMBDA item : item.rel_abs_error >= 0 /\ item.rel_abs_error < Infinity)

(* C24: the histogram of Charts has the 7 bins [0,0.05), [0.05,0.1),       *)
(* [0.1,0.2), [0.2,0.3), [0.3,0.5), [0.5,1), [1,inf); the count of a bin is *)
(* the number of latest records whose relative error is finite, >= 0 and   *)
(* in the bin, so each such record is counted in exactly one bin and the   *)
(* counts sum to the number of such records; the colour of a bin is the    *)
(* colour of the quality tier of every value in the bin.                   *)
C24_HistogramPartition ==
    charts.status = "ok" =>
        /\ BinsAndColours
        /\ \A i \in DOMAIN BinFrom :
               charts.distribution[i].count
                   = Count(FiniteNonNegative(charts.latestData),
                           LAMBDA item : InInterval(item.rel_abs_error, i))
        /\ SumOfCounts(charts.distribution, Len(charts.distribution))
               = Len(FiniteNonNegative(charts.latestData))

\* the statement of C24 as written: every latest record with an error >= 0
\* is in a bin and the counts sum to the number of latest records
C24_HistogramPartitionsAll ==
    charts.status = "ok" =>
        /\ BinsAndColours
        /\ \A i \in DOMAIN BinFrom :
               charts.distribution[i].count
                   = Count(Filter(charts.latestData, LAMBDA item : item.rel_abs_error >= 0),
                           LAMBDA item : InInterval(item.rel_abs_error, i))
        /\ SumOfCounts(charts.distribution, Len(charts.distribution))
               = Len(charts.latestData)

\* Charts rendered a latest epoch of a record on the limit 0.05, counted in
\* the second bin only, and a record of negative error, counted in no bin
C24_Witness ==
    /\ charts.status = "ok"
    /\ Len(charts.latestData) = 2
    /\ charts.latestData[1].rel_abs_error = 50
    /\ charts.latestData[2].rel_abs_error < 0
    /\ charts.distribution[1].count = 0
    /\ charts.distribution[2].count = 1
    /\ SumOfCounts(charts.distribution, Len(charts.distribution)) = 1

----------------------------------------------------------------------------
\* the locations that have records for the metric among the filtered records
LocationsOfMetric(filteredData, metric) ==
    {filteredData[i].name : i \in {j \in DOMAIN filteredData : filteredData[j].metric = metric}}

\* the location is empty or a location of the selected metric, and the chart
\* has a series only if a location is selected
LocationOfSelectedMetric ==
    lineChart.status = "ok" =>
        /\ selectedLocation \in
               LocationsOfMetric(lineChart.sel.filteredData, selectedMetric) \cup {<<>>}
        /\ lineChart.chartData # <<>> => selectedLocation # <<>>
        /\ \A i \in DOMAIN lineChart.chartData :
               /\ lineChart.chartData[i].name = selectedLocation
               /\ lineChart.chartData[i].metric = selectedMetric

\* a step that changes the selected metric leaves no location selected
MetricChangeResetsLocation ==
    (lineChart.status = "ok" /\ selectedMetric' # selectedMetric) => selectedLocation' = <<>>

(* C25: in LineChart, after any sequence of metric and location            *)
(* selections, the selected location is empty or one of the locations      *)
(* with records for the selected metric; choosing another metric resets    *)
(* the location to empty; the chart series is non-empty only when a        *)
(* location is selected.                                                   *)
C25_LocationOfSelectedMetric ==
    []LocationOfSelectedMetric /\ [][MetricChangeResetsLocation]_vars

\* after the user chose another metric than the initial one and a location
\* that has no record for the initial metric, the chart shows its series
C25_Witness ==
    /\ lineChart.status = "ok"
    /\ pc = "done"
    /\ selectedMetric # InitialMetric(data)
    /\ selectedLocation # <<>>
    /\ selectedLocation \notin LocationsOfMetric(data, InitialMetric(data))
    /\ Len(lineChart.chartData) > 0

----------------------------------------------------------------------------
(* C26: in LocalAreas, after any sequence of view-mode, primary and        *)
(* comparison selections, whenever the view mode is 'comparison' the       *)
(* comparison constituency differs from the primary constituency.          *)
C26_NeverComparedWithItself ==
    (localAreas.status = "ok" /\ viewMode = "comparison") =>
        comparisonConstituency # selectedConstituency

============================================================================
